---------------------------- MODULE Spec2Model ----------------------------
(***************************************************************************)
(* A model of media-seal's transform-domain watermark codec:               *)
(*   - the payload codec of AudioWatermark (string <-> bit array),         *)
(*   - the UTF-8 / hex decoding of ImageWatermark's extracted bytes,       *)
(*   - the pseudorandom carrier drawn from numpy's process-wide generator, *)
(*   - the spread-spectrum embed / detect loops over DCT frames,           *)
(*   - VideoWatermark.extract: frame sampling, per-frame extraction and    *)
(*     the majority vote.                                                  *)
(*                                                                         *)
(* Python strings are sequences of code points, byte strings sequences of  *)
(* 0..255, bit arrays sequences of 0/1.  An optional value (str | None) is *)
(* a sequence of length at most one: None is <<>>, a value v is <<v>>.     *)
(***************************************************************************)
EXTENDS Integers, Sequences, FiniteSets, TLC

VARIABLES
    \* ---- payload codec (AudioWatermark._string_to_binary / _binary_to_string)
    codecPc,        \* "idle" | "encoded" | "received" | "decoded"
    text,           \* the str given to _string_to_binary
    sent,           \* the bit array it returned
    received,       \* the bit array later given to _binary_to_string
    decoded,        \* the str _binary_to_string returned
    \* ---- ImageWatermark.extract
    imgPc,          \* "idle" | "done"
    imgFile,        \* the image file extract was called on
    imgMethod,      \* the method argument of the call
    imgResult,      \* its return value (str | None)
    \* ---- numpy's global generator and the carrier calls made so far
    rng,            \* state of np.random's process-wide generator
    carrierCalls,   \* number of _generate_pseudorandom_sequence calls made
    carrierArgs,    \* <<length, seed>> of the latest call (<<>> before any)
    carrierOut,     \* the sequence the latest call returned
    carrierFirst,   \* the records [args, out]: what the first call with args returned
    carrierBefore,  \* the generator's state when the last call was made
    \* ---- spread-spectrum embed / detect on the frames' DCT coefficients
    ssPc,           \* "idle" | "embedded" | "detected"
    ssText,         \* the watermark string
    ssAlpha,        \* alpha, in hundredths
    ssSeed,         \* password
    ssOrig,         \* the frames' DCT coefficients before embedding
    ssCoeffs,       \* the frames' DCT coefficients after embedding
    ssBits,         \* the bit array _extract_dct_watermark returned
    ssDecoded,      \* _binary_to_string of it
    ssMethod,       \* the transform the coefficients belong to: "dct" | "dwt"
    ssLog,          \* per embedded bit: the slot and carrier element embed used
    ssReadLog,      \* per detected bit: the slot and carrier element extract read
    ssReport,       \* what embed told its caller: return value and messages
    \* ---- _calculate_majority_vote called on its own
    votePc,         \* "idle" | "voted"
    voteList,       \* the list of extracted strings given to the vote
    voteWinner,     \* most_common_watermark
    voteConf,       \* confidence, as <<numerator, denominator>>
    \* ---- VideoWatermark.extract
    vPc,            \* "idle" | "open" | "frames" | "aggregate" | "done"
    vArgs,          \* the arguments of the call
    vVideo,         \* the video file: its frames as the capture delivers them
    vIndices,       \* frame_indices
    vPos,           \* position of the frame loop in frame_indices
    vExtracted,     \* extracted_watermarks
    vImageCalls,    \* the ImageWatermark.extract calls made: <<frame, method, result>>
    vVoteInputs,    \* every list _calculate_majority_vote was evaluated on
    vCapOpen,       \* whether the cv2 capture is open
    vResult,        \* return value of extract (str | None)
    \* ---- two threads, each in _embed_dct_watermark or _extract_dct_watermark
    parPc,          \* per thread: "idle" | "called" | "seeded" | "drawn" | "done"
    parJob,         \* per thread: the arguments of its call
    parPn,          \* per thread: its local pn_sequence
    parOut,         \* per thread: what its call returned
    \* ---- _embed_dct_watermark / _embed_dwt_watermark on a sample buffer
    bufPc,          \* "idle" | "done"
    bufIn,          \* audio: the samples given to the call
    bufMethod,      \* "dct" | "dwt"
    bufText,        \* the watermark string
    bufRec,         \* watermarked_audio as reconstructed, before any length fix
    bufOut,         \* the buffer the call returned (None: it raised)
    \* ---- a call of AudioWatermark.embed, ImageWatermark.embed or
    \* ---- VideoWatermark.embed, and the filesystem around it
    fsPc,           \* "idle" | "done"
    fsCall,         \* the arguments and what the call finds (None before it)
    fsDirBefore,    \* whether output_path.parent existed before the call
    fsDirAfter,     \* whether it exists after the call
    fsWritten,      \* the files written during the call: "output", "temp"
    fsResult,       \* the bool the call returned
    \* ---- AudioWatermark.extract
    axPc,           \* "idle" | "done"
    axCall,         \* the arguments and the file of the call (None before it)
    axResult,       \* its return value (str | None)
    \* ---- sign-force embedding / detection on one coefficient vector
    sfPc,           \* "idle" | "embedded" | "reembedded" | "detected"
    sfOrig,         \* the coefficient vector before embedding
    sfBits,         \* the payload bits
    sfOnce,         \* the coefficients after embedding the payload
    sfSecond,       \* a second embedding of the payload into the original
    sfAgain,        \* the payload embedded again into sfOnce
    sfDetected,     \* the bits detection read from sfOnce
    \* ---- batch_embed of one of the three classes
    bPc,            \* "idle" | "loop" | "done"
    bCall,          \* the arguments and the directory of the call (None before it)
    bFiles,         \* the list of matched files, as indices into the directory
    bResults,       \* what self.embed returned for the files processed so far
    bCount,         \* success_count
    bOutDir,        \* whether output_dir exists
    bReturn,        \* the returned value (None until the call returns)
    \* ---- VideoWatermark.embed: reader, writer and the frame loop
    vePc,           \* "idle" | "loop" | "afterloop" | "done" | "sampled"
    veArgs,         \* frame_interval and max_frames of the call (None before it)
    veTotal,        \* total_frames, after the max_frames cut
    veWritten,      \* the frames appended to the writer: [idx, watermarked]
    veFrameCount,   \* frame_count
    veWatermarkedCount, \* watermarked_count
    veReader,       \* the imageio reader: "none" | "open" | "closed"
    veWriter,       \* the imageio writer: "none" | "open" | "closed"
    veRaised,       \* an iteration of the frame loop raised
    veResult,       \* the bool embed returned (None until it returns)
    veSampled,      \* the frame indices extract samples in the video written
    \* ---- the commands `video embed` and `video extract` of main.py
    cliPc,          \* "idle" | "done"
    cliCmd,         \* the command and its options (None before it)
    cliCall,        \* the call of VideoWatermark the command made: how its
                    \* arguments were bound, or that binding them raised
    cliExit         \* "none" | "Exit(1)" | "TypeError" | "returned"

codecVars   == <<codecPc, text, sent, received, decoded>>
imgVars     == <<imgPc, imgFile, imgMethod, imgResult>>
carrierVars == <<rng, carrierCalls, carrierArgs, carrierOut, carrierFirst,
                 carrierBefore>>
ssVars      == <<ssPc, ssText, ssAlpha, ssSeed, ssOrig, ssCoeffs, ssBits, ssDecoded,
                 ssMethod, ssLog, ssReadLog, ssReport>>
voteVars    == <<votePc, voteList, voteWinner, voteConf>>
videoVars   == <<vPc, vArgs, vVideo, vIndices, vPos, vExtracted, vImageCalls,
                 vVoteInputs, vCapOpen, vResult>>
parVars     == <<parPc, parJob, parPn, parOut>>
\* The components added to the model after the first six.
bufVars     == <<bufPc, bufIn, bufMethod, bufText, bufRec, bufOut>>
fsVars      == <<fsPc, fsCall, fsDirBefore, fsDirAfter, fsWritten, fsResult>>
axVars      == <<axPc, axCall, axResult>>
sfVars      == <<sfPc, sfOrig, sfBits, sfOnce, sfSecond, sfAgain, sfDetected>>
batchVars   == <<bPc, bCall, bFiles, bResults, bCount, bOutDir, bReturn>>
vembedVars  == <<vePc, veArgs, veTotal, veWritten, veFrameCount,
                 veWatermarkedCount, veReader, veWriter, veRaised, veResult,
                 veSampled>>
cliVars     == <<cliPc, cliCmd, cliCall, cliExit>>
lateVars    == <<batchVars, vembedVars, cliVars>>
moreVars    == <<parVars, bufVars, fsVars, axVars, sfVars, lateVars>>
vars        == <<codecVars, imgVars, carrierVars, ssVars, voteVars, videoVars,
                 moreVars>>

\* What the operations of one component leave alone.
carrierLog    == <<carrierCalls, carrierArgs, carrierOut, carrierFirst,
                   carrierBefore>>
codecFrame    == <<carrierVars, ssVars, voteVars, videoVars, moreVars>>
carrierFrame  == <<codecVars, imgVars, ssVars, voteVars, videoVars, moreVars>>
ssFrame       == <<codecVars, imgVars, carrierLog, voteVars, videoVars, moreVars>>
voteFrame     == <<codecVars, imgVars, carrierVars, ssVars, videoVars, moreVars>>
videoFrame    == <<codecVars, imgVars, carrierVars, ssVars, voteVars, moreVars>>
parFrame      == <<codecVars, imgVars, carrierLog, ssVars, voteVars, videoVars,
                   bufVars, fsVars, axVars, sfVars, lateVars>>
bufFrame      == <<codecVars, imgVars, carrierLog, ssVars, voteVars, videoVars,
                   parVars, fsVars, axVars, sfVars, lateVars>>
fsFrame       == <<codecVars, imgVars, carrierVars, ssVars, voteVars, videoVars,
                   parVars, bufVars, axVars, sfVars, lateVars>>
axFrame       == <<codecVars, imgVars, carrierLog, ssVars, voteVars, videoVars,
                   parVars, bufVars, fsVars, sfVars, lateVars>>
sfFrame       == <<codecVars, imgVars, carrierVars, ssVars, voteVars, videoVars,
                   parVars, bufVars, fsVars, axVars, lateVars>>

\* The components that the late ones leave alone.
baseVars      == <<codecVars, imgVars, carrierVars, ssVars, voteVars, videoVars,
                   parVars, bufVars, fsVars, axVars, sfVars>>
batchFrame    == <<baseVars, vembedVars, cliVars>>
vembedFrame   == <<baseVars, batchVars, cliVars>>
cliFrame      == <<baseVars, batchVars, vembedVars>>

\* No call of the three classes' embed / extract has been made yet: the
\* calls are taken one at a time, each from the state after construction.
NoCallYet ==
    /\ vPc = "idle" /\ imgPc = "idle" /\ fsPc = "idle" /\ axPc = "idle"
    /\ vePc = "idle"

-----------------------------------------------------------------------------
(* Generic helpers *)

None == <<>>
Some(v) == <<v>>

\* An exception on its way out of a call, where the call's result would be:
\* no str and not None.
Raise == Some(<<-1>>)

\* The try block of a call left without a handler: what its body raises
\* reaches the caller.
TryExcept_Propagate(body) == body
\* try: <body> except Exception: ... return None
TryExcept(body) == IF body = Raise THEN None ELSE body

Min(a, b) == IF a <= b THEN a ELSE b
Abs(x) == IF x < 0 THEN -x ELSE x

\* All sequences over S of length lo..hi.
SeqsOf(S, lo, hi) == UNION {[1..n -> S] : n \in lo..hi}

RECURSIVE Concat(_)
Concat(ss) == IF ss = <<>> THEN <<>> ELSE Head(ss) \o Concat(Tail(ss))

-----------------------------------------------------------------------------
(* Bounds of the model *)

\* longest string given to the payload codec
MaxTextLen == 2
\* most trailing bits appended to an encoded payload before decoding
MaxTailBits == 7

\* Code points the strings are built from: NUL, 'A', DEL (ASCII), U+00E9 and
\* U+4E2D (not ASCII).
CodePoints == {0, 65, 127, 233, 20013}
IsAscii(s) == \A i \in 1..Len(s) : s[i] < 128
Texts == SeqsOf(CodePoints, 0, MaxTextLen)

-----------------------------------------------------------------------------
(* Payload codec: audio_watermark.py *)

\* int(byte, 2): the value of a bit sequence read most-significant bit first.
RECURSIVE IntBase2(_)
IntBase2(b) ==
    IF b = <<>> THEN 0
    ELSE 2 * IntBase2(SubSeq(b, 1, Len(b) - 1)) + b[Len(b)]

\* The binary digits of n, most significant first, without leading zeros
\* ("0" for 0): what format(n, "b") prints.
RECURSIVE BinDigits(_)
BinDigits(n) == IF n < 2 THEN <<n>> ELSE BinDigits(n \div 2) \o <<n % 2>>

\* format(n, "08b"): the binary digits, zero-padded on the left to a MINIMUM
\* width of 8; a number of more than 8 digits keeps them all.
Format08b(n) ==
    LET d == BinDigits(n)
    IN  IF Len(d) >= 8 THEN d ELSE [i \in 1..(8 - Len(d)) |-> 0] \o d

\* AudioWatermark._string_to_binary: "".join(format(ord(char), "08b") ...)
string_to_binary(t) == Concat([i \in 1..Len(t) |-> Format08b(t[i])])

\* The decoder with the truncation to a multiple of 8 and the len(byte) == 8
\* test left out: a trailing partial group becomes a character too.
binary_to_string_NoTruncate(binary) ==
    LET n == Len(binary)
    IN  [i \in 1..((n + 7) \div 8) |->
            IntBase2(SubSeq(binary, 8 * (i - 1) + 1, Min(8 * i, n)))]

\* AudioWatermark._binary_to_string: cut to a multiple of 8, then chr(int(byte, 2))
\* for each group of 8.
binary_to_string(binary) ==
    LET n == Len(binary) - (Len(binary) % 8)
        binary_str == SubSeq(binary, 1, n)
    IN  [i \in 1..(n \div 8) |->
            IntBase2(SubSeq(binary_str, 8 * (i - 1) + 1, 8 * i))]

-----------------------------------------------------------------------------
(* UTF-8, as Python's str.encode('utf-8') / bytes.decode('utf-8') *)

Utf8EncodeChar(cp) ==
    IF cp < 128 THEN <<cp>>
    ELSE IF cp < 2048 THEN <<192 + (cp \div 64), 128 + (cp % 64)>>
    ELSE IF cp < 65536 THEN
        <<224 + (cp \div 4096), 128 + ((cp \div 64) % 64), 128 + (cp % 64)>>
    ELSE <<240 + (cp \div 262144), 128 + ((cp \div 4096) % 64),
           128 + ((cp \div 64) % 64), 128 + (cp % 64)>>

Utf8Encode(t) == Concat([i \in 1..Len(t) |-> Utf8EncodeChar(t[i])])

IsCont(b) == b \in 128..191

\* Length of the well-formed UTF-8 sequence at the head of bs, 0 when there
\* is none (Unicode table 3-7: no overlong forms, no surrogates, <= U+10FFFF).
Utf8HeadLen(bs) ==
    LET n  == Len(bs)
        b1 == bs[1]
    IN  IF b1 < 128 THEN 1
        ELSE IF b1 \in 194..223 THEN
            IF n >= 2 /\ IsCont(bs[2]) THEN 2 ELSE 0
        ELSE IF b1 \in 224..239 THEN
            IF n >= 3 /\ IsCont(bs[3])
               /\ bs[2] \in (IF b1 = 224 THEN 160..191
                             ELSE IF b1 = 237 THEN 128..159 ELSE 128..191)
            THEN 3 ELSE 0
        ELSE IF b1 \in 240..244 THEN
            IF n >= 4 /\ IsCont(bs[3]) /\ IsCont(bs[4])
               /\ bs[2] \in (IF b1 = 240 THEN 144..191
                             ELSE IF b1 = 244 THEN 128..143 ELSE 128..191)
            THEN 4 ELSE 0
        ELSE 0

RECURSIVE Utf8Valid(_)
Utf8Valid(bs) ==
    IF bs = <<>> THEN TRUE
    ELSE LET k == Utf8HeadLen(bs)
         IN  k > 0 /\ Utf8Valid(SubSeq(bs, k + 1, Len(bs)))

Utf8HeadChar(bs, k) ==
    IF k = 1 THEN bs[1]
    ELSE IF k = 2 THEN (bs[1] - 192) * 64 + (bs[2] - 128)
    ELSE IF k = 3 THEN (bs[1] - 224) * 4096 + (bs[2] - 128) * 64 + (bs[3] - 128)
    ELSE (bs[1] - 240) * 262144 + (bs[2] - 128) * 4096
         + (bs[3] - 128) * 64 + (bs[4] - 128)

\* bytes.decode('utf-8') of a valid byte string.
RECURSIVE Utf8Decode(_)
Utf8Decode(bs) ==
    IF bs = <<>> THEN <<>>
    ELSE LET k == Utf8HeadLen(bs)
         IN  <<Utf8HeadChar(bs, k)>> \o Utf8Decode(SubSeq(bs, k + 1, Len(bs)))

\* bytes.hex(): two lowercase hexadecimal digits per byte, as code points.
HexDigit(d) == IF d < 10 THEN 48 + d ELSE 87 + d
BytesHex(bs) == Concat([i \in 1..Len(bs) |-> <<HexDigit(bs[i] \div 16), HexDigit(bs[i] % 16)>>])


-----------------------------------------------------------------------------
(* ImageWatermark.extract: image_watermark.py *)

\* Python passes arguments by position whatever their type, so an argument
\* is a tagged value: a str or an int.
StrArg(s) == [isStr |-> TRUE, s |-> s, n |-> 0]
IntArg(n) == [isStr |-> FALSE, s |-> "", n |-> n]

\* most bytes the watermark library's decoder returns for one image
MaxPayloadBytes == 2
\* The bytes those payloads are built from: 'A', 'f', 0xFF (never valid in
\* UTF-8), 0xC3 0xA9 (U+00E9 when adjacent, invalid apart).
PayloadByteValues == {65, 102, 195, 169, 255}
PayloadBytes == SeqsOf(PayloadByteValues, 0, MaxPayloadBytes)

\* An image file as extract sees it: whether the path exists, whether
\* cv2.imread can read it, what the imwatermark decoder returns for its
\* pixels (None: the decoder raises), what blind_watermark returns for it
\* (None: raises).  Both libraries are external and opaque.
ImageFiles ==
    [exists   : BOOLEAN,
     readable : BOOLEAN,
     payload  : {None} \cup {Some(b) : b \in PayloadBytes},
     blind    : {None, Some(<<65, 66>>)}]

\* lines 159-165: decode the bytes as UTF-8, on UnicodeDecodeError return
\* their hex digits.  Either way the caller gets a plain str.
DecodeWatermarkBytes(watermark_bytes) ==
    IF Utf8Valid(watermark_bytes) THEN Utf8Decode(watermark_bytes)
    ELSE BytesHex(watermark_bytes)

\* ImageWatermark._extract_invisible_watermark.  An exception of the decoder
\* propagates to extract's handler.
extract_invisible_watermark(file, available) ==
    IF ~available THEN None
    ELSE IF ~file.readable THEN None
    ELSE IF file.payload = None THEN Raise
    ELSE Some(DecodeWatermarkBytes(file.payload[1]))

\* ImageWatermark._extract_blind_watermark, text mode.
extract_blind_watermark(file) == IF file.blind = None THEN Raise ELSE file.blind

InvisibleMethods == {"dwtDct", "dwtDctSvd", "rivaGan"}

\* ImageWatermark.extract(input_path, method, password_img, ...): the first
\* positional argument after the path is the method.
ImageExtractBody(file, method, password_img, available) ==
    IF ~file.exists THEN None
    ELSE IF method.isStr /\ method.s \in InvisibleMethods
        THEN extract_invisible_watermark(file, available)
    ELSE IF method.isStr /\ method.s = "blind"
        THEN extract_blind_watermark(file)
    ELSE None

\* The whole of extract: the body inside its try (lines 106-123).
ImageExtract(file, method, password_img, available) ==
    TryExcept(ImageExtractBody(file, method, password_img, available))

-----------------------------------------------------------------------------
(* numpy's process-wide generator and the carrier: audio_watermark.py       *)
(*                                                                          *)
(* np.random is one generator shared by the whole process.  MT19937 and the *)
(* Gaussian transform are stood in for by a small linear congruential       *)
(* generator whose draws are non-zero multiples of 1/2: what matters is     *)
(* that seed() overwrites the state with a function of the seed alone and   *)
(* that every draw reads and advances that state.                           *)

\* States the generator may be in when the process starts (numpy seeds it
\* from OS entropy at import).
EntropyStates == {0, 1031, 40009}

\* np.random.seed(seed)
RngSeed(seed) == (seed * 7919 + 13) % 65537
RngAdvance(state) == (75 * state + 74) % 65537
\* One standard-normal draw, in halves.
RngGauss(state) == <<-3, -2, -1, 1, 2, 3>>[((state \div 7) % 6) + 1]

\* np.random.randn(length) from `state`: the draws and the state left behind.
RECURSIVE RandN(_, _)
RandN(state, length) ==
    IF length <= 0 THEN [seq |-> <<>>, rng |-> state]
    ELSE LET s1   == RngAdvance(state)
             rest == RandN(s1, length - 1)
         IN  [seq |-> <<RngGauss(s1)>> \o rest.seq, rng |-> rest.rng]

\* The generator used without reseeding: the draws continue from wherever
\* the process-wide state happens to be.
generate_pseudorandom_sequence_NoSeed(state, length, seed) ==
    RandN(state, length)

\* AudioWatermark._generate_pseudorandom_sequence, called with the process
\* generator in `state`: np.random.seed(seed); return np.random.randn(length)
generate_pseudorandom_sequence(state, length, seed) ==
    RandN(RngSeed(seed), length)

\* longest carrier requested in the carrier specification
MaxCarrierLen == 3
\* number of calls made in one run of the carrier specification
MaxCarrierCalls == 3
\* the passwords used
Seeds == {0, 42, 12345}

\* What the first call with arguments args returned (None: no such call yet).
FirstReturn(args) ==
    IF \E r \in carrierFirst : r.args = args
    THEN Some((CHOOSE r \in carrierFirst : r.args = args).out)
    ELSE None

\* One call of _generate_pseudorandom_sequence(length, seed).
GenerateCall ==
    /\ carrierCalls < MaxCarrierCalls
    /\ \E length \in 0..MaxCarrierLen, seed \in Seeds :
        LET r == generate_pseudorandom_sequence(rng, length, seed)
        IN  /\ rng' = r.rng
            /\ carrierBefore' = rng
            /\ carrierArgs' = <<length, seed>>
            /\ carrierOut' = r.seq
            /\ carrierFirst' =
                IF FirstReturn(<<length, seed>>) = None
                THEN carrierFirst \cup {[args |-> <<length, seed>>, out |-> r.seq]}
                ELSE carrierFirst
    /\ carrierCalls' = carrierCalls + 1
    /\ UNCHANGED carrierFrame

-----------------------------------------------------------------------------
(* Spread-spectrum embedding and detection in the DCT domain:               *)
(* audio_watermark.py.  The state is the frames' DCT coefficient vectors    *)
(* (dct(frame) for each column of librosa.util.frame); a coefficient is a   *)
(* fixed-point number in units of 1/200, alpha is in hundredths and a       *)
(* carrier value in halves, so alpha * |coeff| * c is exact for the inputs  *)
(* used, which are multiples of 200.                                        *)

\* frame_length (2048 in the program), scaled down
FrameLength == 12
\* number of frames librosa.util.frame cuts the signal into
NumFrames == 2
\* longest watermark string embedded
MaxWatermarkChars == 1

\* An embedding that brings alpha into [0.01, 1.0] first.
EmbedCoeff_Clamped(x, bit, alpha, c) ==
    LET a == IF alpha > 100 THEN 100 ELSE IF alpha < 1 THEN 1 ELSE alpha
        delta == (a * Abs(x) * c) \div 200
    IN  IF bit = 1 THEN x + delta ELSE x - delta

\* dct_coeffs[j] += / -= alpha * abs(dct_coeffs[j]) * pn_sequence[watermark_idx]
EmbedCoeff(x, bit, alpha, c) ==
    LET delta == (alpha * Abs(x) * c) \div 200
    IN  IF bit = 1 THEN x + delta ELSE x - delta

\* A detector that reads a product of 0 as a 1.
DetectCoeff_NonNegative(x, c) == IF x * c >= 0 THEN 1 ELSE 0

\* correlation = dct_coeffs[j] * pn_sequence[watermark_idx]; 1 if > 0 else 0
DetectCoeff(x, c) == IF x * c > 0 THEN 1 ELSE 0

\* A band that starts at coefficient 0.
mid_freq_start_Zero(L) == 0
\* mid_freq_start = len(dct_coeffs) // 4
mid_freq_start(L) == L \div 4
\* A band that runs to the end of the frame.
mid_freq_end_Whole(L) == L
mid_freq_end(L) == (3 * L) \div 4

\* The indices j (0-based) the inner loop of frame `frame` visits when
\* `left` bits are still to be placed: range(start, min(end, start + left)).
InnerRange(L, left) ==
    mid_freq_start(L) .. (Min(mid_freq_end(L), mid_freq_start(L) + left) - 1)

\* The frame loop of _embed_dct_watermark from frame i on (1-based), with
\* watermark_idx = idx bits already placed.
RECURSIVE EmbedLoop(_, _, _, _, _, _)
EmbedLoop(frames, i, idx, watermark, pn, alpha) ==
    IF i > Len(frames) \/ idx >= Len(watermark) THEN frames
    ELSE LET L  == Len(frames[i])
             js == InnerRange(L, Len(watermark) - idx)
             k(j) == idx + (j - mid_freq_start(L)) + 1
             dct_coeffs ==
                 [p \in 1..L |->
                     IF (p - 1) \in js
                     THEN EmbedCoeff(frames[i][p], watermark[k(p - 1)], alpha,
                                     pn[k(p - 1)])
                     ELSE frames[i][p]]
         IN  EmbedLoop([frames EXCEPT ![i] = dct_coeffs], i + 1,
                       idx + Cardinality(js), watermark, pn, alpha)

\* AudioWatermark._embed_dct_watermark on the frames' coefficients, with the
\* process generator in state `state`: the new coefficients and the state
\* the generator is left in.
embed_dct_watermark(state, frames, watermark, alpha, password) ==
    LET g == generate_pseudorandom_sequence(state, Len(watermark), password)
    IN  [frames |-> EmbedLoop(frames, 1, 0, watermark, g.seq, alpha),
         rng |-> g.rng]

\* The frame loop of _extract_dct_watermark.
RECURSIVE ExtractLoop(_, _, _, _, _, _)
ExtractLoop(frames, i, idx, watermark_length, pn, extracted_watermark) ==
    IF i > Len(frames) \/ idx >= watermark_length THEN extracted_watermark
    ELSE LET L  == Len(frames[i])
             js == InnerRange(L, watermark_length - idx)
             j(k) == mid_freq_start(L) + (k - 1 - idx)
             next ==
                 [k \in 1..watermark_length |->
                     IF j(k) \in js /\ k > idx
                     THEN DetectCoeff(frames[i][j(k) + 1], pn[k])
                     ELSE extracted_watermark[k]]
         IN  ExtractLoop(frames, i + 1, idx + Cardinality(js),
                         watermark_length, pn, next)

\* AudioWatermark._extract_dct_watermark.
extract_dct_watermark(state, frames, watermark_length, password) ==
    LET g == generate_pseudorandom_sequence(state, watermark_length, password)
    IN  [bits |-> ExtractLoop(frames, 1, 0, watermark_length, g.seq,
                              [k \in 1..watermark_length |-> 0]),
         rng |-> g.rng]

\* The slots the frame loop of _embed_dct_watermark writes, from frame i on
\* (1-based) with watermark_idx = idx: for each bit placed, in bit order, the
\* frame, the coefficient index j (0-based) and the carrier element
\* pn_sequence[watermark_idx].
RECURSIVE EmbedSlots(_, _, _, _, _)
EmbedSlots(frames, i, idx, watermark, pn) ==
    IF i > Len(frames) \/ idx >= Len(watermark) THEN <<>>
    ELSE LET L == Len(frames[i])
             stop == Min(mid_freq_end(L), mid_freq_start(L) + (Len(watermark) - idx))
             here == [n \in 1..(stop - mid_freq_start(L)) |->
                         [frame |-> i, j |-> mid_freq_start(L) + n - 1,
                          c |-> pn[idx + n]]]
         IN  here \o EmbedSlots(frames, i + 1, idx + Len(here), watermark, pn)

\* A detector whose band starts at coefficient 0.
RECURSIVE ExtractSlots_FromZero(_, _, _, _, _)
ExtractSlots_FromZero(frames, i, idx, watermark_length, pn) ==
    IF i > Len(frames) \/ idx >= watermark_length THEN <<>>
    ELSE LET L == Len(frames[i])
             stop == Min(mid_freq_end(L) - mid_freq_start(L), watermark_length - idx)
             here == [n \in 1..stop |-> [frame |-> i, j |-> n - 1, c |-> pn[idx + n]]]
         IN  here \o ExtractSlots_FromZero(frames, i + 1, idx + Len(here),
                                           watermark_length, pn)

\* The slots the frame loop of _extract_dct_watermark reads.
RECURSIVE ExtractSlots(_, _, _, _, _)
ExtractSlots(frames, i, idx, watermark_length, pn) ==
    IF i > Len(frames) \/ idx >= watermark_length THEN <<>>
    ELSE LET L == Len(frames[i])
             stop == Min(mid_freq_end(L), mid_freq_start(L) + (watermark_length - idx))
             here == [n \in 1..(stop - mid_freq_start(L)) |->
                         [frame |-> i, j |-> mid_freq_start(L) + n - 1,
                          c |-> pn[idx + n]]]
         IN  here \o ExtractSlots(frames, i + 1, idx + Len(here), watermark_length, pn)

\* pywt.wavedec(audio, "db4", level=4): the db4 filters have 8 taps, and in
\* pywt's default signal extension mode an input of n samples gives
\* floor((n + 8 - 1) / 2) coefficients per level.
DwtFilterLen == 8
DwtLevel == 4
dwt_coeff_len(n) == (n + DwtFilterLen - 1) \div 2
RECURSIVE ApproxLen(_, _)
ApproxLen(n, level) ==
    IF level = 0 THEN n ELSE dwt_coeff_len(ApproxLen(n, level - 1))
\* The lengths of [cA4, cD4, cD3, cD2, cD1].
WaveDecLens(n) ==
    <<ApproxLen(n, DwtLevel)>>
        \o [i \in 1..DwtLevel |-> ApproxLen(n, DwtLevel - i + 1)]

\* pywt.waverec(coeffs, "db4"): from the approximation up, one inverse step
\* per detail vector; an approximation one longer than the detail loses its
\* last element, and the step returns 2 * len - 8 + 2 samples.
RECURSIVE WaveRecLen(_, _, _)
WaveRecLen(lens, i, a) ==
    IF i > Len(lens) THEN a
    ELSE LET trimmed == IF a = lens[i] + 1 THEN a - 1 ELSE a
         IN  WaveRecLen(lens, i + 1, 2 * trimmed - DwtFilterLen + 2)

\* detail_coeffs = coeffs[1], as a 1-based position in the coefficient list
DetailPos == 2

\* An embedding into the approximation vector, coeffs[0].
embed_dwt_coeffs_Approx(coeffs, watermark, pn, alpha) ==
    LET approx == coeffs[1]
        n == Min(Len(watermark), Len(approx))
    IN  [coeffs EXCEPT ![1] =
            [p \in 1..Len(approx) |->
                IF p <= n THEN EmbedCoeff(approx[p], watermark[p], alpha, pn[p])
                ELSE approx[p]]]

\* The loop of _embed_dwt_watermark over detail_coeffs:
\* for i in range(min(len(watermark), len(detail_coeffs))).
embed_dwt_coeffs(coeffs, watermark, pn, alpha) ==
    LET detail_coeffs == coeffs[DetailPos]
        n == Min(Len(watermark), Len(detail_coeffs))
    IN  [coeffs EXCEPT ![DetailPos] =
            [p \in 1..Len(detail_coeffs) |->
                IF p <= n
                THEN EmbedCoeff(detail_coeffs[p], watermark[p], alpha, pn[p])
                ELSE detail_coeffs[p]]]

\* The slots that loop writes.
EmbedDwtSlots(coeffs, watermark, pn) ==
    [n \in 1..Min(Len(watermark), Len(coeffs[DetailPos])) |->
        [frame |-> DetailPos, j |-> n - 1, c |-> pn[n]]]

\* The loop of _extract_dwt_watermark:
\* for i in range(min(watermark_length, len(detail_coeffs))).
extract_dwt_coeffs(coeffs, watermark_length, pn) ==
    LET detail_coeffs == coeffs[DetailPos]
        n == Min(watermark_length, Len(detail_coeffs))
    IN  [k \in 1..watermark_length |->
            IF k <= n THEN DetectCoeff(detail_coeffs[k], pn[k]) ELSE 0]

\* The slots that loop reads.
ExtractDwtSlots(coeffs, watermark_length, pn) ==
    [n \in 1..Min(watermark_length, Len(coeffs[DetailPos])) |->
        [frame |-> DetailPos, j |-> n - 1, c |-> pn[n]]]

\* Bits the frames can carry: the eligible band of every frame.
Capacity(frames) ==
    LET RECURSIVE Sum(_)
        Sum(i) == IF i > Len(frames) THEN 0
                  ELSE (mid_freq_end(Len(frames[i])) - mid_freq_start(Len(frames[i])))
                       + Sum(i + 1)
    IN  Sum(1)

\* The coefficient vectors of one frame that the runs start from.
FramePatterns ==
    {[p \in 1..FrameLength |-> 200 * v] : v \in {-2, 0, 1}}
    \cup {[p \in 1..FrameLength |-> 200 * (IF p % 2 = 0 THEN v ELSE -v)] : v \in {1, 3}}
\* A signal of 1..NumFrames frames.
Signals == UNION {[1..n -> FramePatterns] : n \in 1..NumFrames}
WatermarkTexts == SeqsOf({65, 122}, 0, MaxWatermarkChars)
\* alpha: 0.01, 0.1, 1.0, and 1.5, which is above the range the command line
\* accepts: the class itself takes any float.
Alphas == {1, 10, 100, 150}

\* watermarked = self._embed_dct_watermark(y, self._string_to_binary(watermark),
\*                                         alpha, password)
\* and then (lines 100-103) the success message and return True.
EmbedDct ==
    /\ ssPc = "idle"
    /\ \E t \in WatermarkTexts, a \in Alphas, seed \in Seeds, sig \in Signals :
        LET r == embed_dct_watermark(rng, sig, string_to_binary(t), a, seed)
            pn == generate_pseudorandom_sequence(rng, Len(string_to_binary(t)), seed).seq
        IN  /\ ssText' = t /\ ssAlpha' = a /\ ssSeed' = seed
            /\ ssOrig' = sig
            /\ ssCoeffs' = r.frames
            /\ ssLog' = EmbedSlots(sig, 1, 0, string_to_binary(t), pn)
            /\ rng' = r.rng
    /\ ssMethod' = "dct"
    /\ ssReport' = [returned |-> TRUE, messages |-> {"success"}]
    /\ ssPc' = "embedded"
    /\ UNCHANGED <<ssBits, ssDecoded, ssReadLog, ssFrame>>

\* The audio lengths whose wavelet coefficients the runs start from, and the
\* coefficient lists pywt.wavedec gives for them.
DwtAudioLens == {1, 40}
DwtSignals ==
    {[i \in 1..(DwtLevel + 1) |-> [p \in 1..WaveDecLens(n)[i] |-> 200 * v]] :
        n \in DwtAudioLens, v \in {1, -2}}
    \cup {[i \in 1..(DwtLevel + 1) |->
            [p \in 1..WaveDecLens(n)[i] |-> 200 * (IF p % 2 = 0 THEN 3 ELSE -3)]] :
        n \in DwtAudioLens}

\* watermarked = self._embed_dwt_watermark(y, self._string_to_binary(watermark),
\*                                         alpha, password)
\* With PyWavelets missing the call falls back on _embed_dct_watermark.
EmbedDwt ==
    /\ ssPc = "idle"
    /\ \E t \in WatermarkTexts, a \in Alphas, seed \in Seeds, PYWT_AVAILABLE \in BOOLEAN :
        LET watermark == string_to_binary(t)
            g == generate_pseudorandom_sequence(rng, Len(watermark), seed)
        IN  /\ ssText' = t /\ ssAlpha' = a /\ ssSeed' = seed
            /\ rng' = g.rng
            /\ IF PYWT_AVAILABLE
               THEN \E coeffs \in DwtSignals :
                        /\ ssOrig' = coeffs
                        /\ ssCoeffs' = embed_dwt_coeffs(coeffs, watermark, g.seq, a)
                        /\ ssLog' = EmbedDwtSlots(coeffs, watermark, g.seq)
                        /\ ssMethod' = "dwt"
                        /\ ssReport' = [returned |-> TRUE, messages |-> {"success"}]
               ELSE \E sig \in Signals :
                        /\ ssOrig' = sig
                        /\ ssCoeffs' = embed_dct_watermark(rng, sig, watermark, a,
                                                           seed).frames
                        /\ ssLog' = EmbedSlots(sig, 1, 0, watermark, g.seq)
                        /\ ssMethod' = "dct"
                        /\ ssReport' = [returned |-> TRUE,
                                        messages |-> {"pywt missing", "success"}]
    /\ ssPc' = "embedded"
    /\ UNCHANGED <<ssBits, ssDecoded, ssReadLog, ssFrame>>

\* self._binary_to_string(self._extract_dct_watermark(y, watermark_length * 8,
\*                                                    password))
\* on the coefficients just embedded, with the same password and
\* watermark_length = len(watermark).
ExtractDct ==
    /\ ssPc = "embedded"
    /\ ssMethod = "dct"
    /\ LET r == extract_dct_watermark(rng, ssCoeffs, 8 * Len(ssText), ssSeed)
       IN  /\ ssBits' = r.bits
           /\ ssDecoded' = binary_to_string(r.bits)
           /\ ssReadLog' = ExtractSlots(ssCoeffs, 1, 0, 8 * Len(ssText),
                  generate_pseudorandom_sequence(rng, 8 * Len(ssText), ssSeed).seq)
           /\ rng' = r.rng
    /\ ssPc' = "detected"
    /\ UNCHANGED <<ssText, ssAlpha, ssSeed, ssOrig, ssCoeffs, ssMethod, ssLog,
                   ssReport, ssFrame>>

\* self._binary_to_string(self._extract_dwt_watermark(y, watermark_length * 8,
\*                                                    password))
\* on the wavelet coefficients just embedded.
ExtractDwt ==
    /\ ssPc = "embedded"
    /\ ssMethod = "dwt"
    /\ LET g == generate_pseudorandom_sequence(rng, 8 * Len(ssText), ssSeed)
           bits == extract_dwt_coeffs(ssCoeffs, 8 * Len(ssText), g.seq)
       IN  /\ ssBits' = bits
           /\ ssDecoded' = binary_to_string(bits)
           /\ ssReadLog' = ExtractDwtSlots(ssCoeffs, 8 * Len(ssText), g.seq)
           /\ rng' = g.rng
    /\ ssPc' = "detected"
    /\ UNCHANGED <<ssText, ssAlpha, ssSeed, ssOrig, ssCoeffs, ssMethod, ssLog,
                   ssReport, ssFrame>>

-----------------------------------------------------------------------------
(* Majority vote: video_watermark.py *)

\* Counter(xs): a dict, so its keys are kept in the order they were first
\* inserted.  The keys of Counter(xs), in that order.
RECURSIVE CounterKeys(_)
CounterKeys(xs) ==
    IF xs = <<>> THEN <<>>
    ELSE LET init == CounterKeys(SubSeq(xs, 1, Len(xs) - 1))
             x    == xs[Len(xs)]
         IN  IF \E i \in 1..Len(init) : init[i] = x THEN init
             ELSE Append(init, x)

\* Counter(xs)[x]
Count(xs, x) == Cardinality({i \in 1..Len(xs) : xs[i] = x})

\* most_common(1) with the comparison turned round: a later key of equal
\* count replaces the earlier one.
RECURSIVE MostCommonLast(_, _, _)
MostCommonLast(xs, keys, best) ==
    IF keys = <<>> THEN best
    ELSE MostCommonLast(xs, Tail(keys),
            IF Count(xs, Head(keys)) >= Count(xs, best)
            THEN Head(keys) ELSE best)

\* most_common(1)[0][0] of a non-empty counter: heapq.nlargest(1, items,
\* key=count) is max(items, key=count), which keeps the first of several
\* maximal items in iteration order.
RECURSIVE MostCommon(_, _, _)
MostCommon(xs, keys, best) ==
    IF keys = <<>> THEN best
    ELSE MostCommon(xs, Tail(keys),
            IF Count(xs, Head(keys)) > Count(xs, best)
            THEN Head(keys) ELSE best)

\* The vote that takes the first extracted string instead of the most
\* common one.
calculate_majority_vote_First(extracted_watermarks) ==
    IF extracted_watermarks = <<>> THEN [raised |-> TRUE, winner |-> <<>>, conf |-> <<0, 1>>]
    ELSE [raised |-> FALSE,
          winner |-> extracted_watermarks[1],
          conf   |-> <<Count(extracted_watermarks, extracted_watermarks[1]),
                       Len(extracted_watermarks)>>]

\* The vote with ties going to the string inserted last.
calculate_majority_vote_LastTie(extracted_watermarks) ==
    IF extracted_watermarks = <<>> THEN [raised |-> TRUE, winner |-> <<>>, conf |-> <<0, 1>>]
    ELSE LET keys == CounterKeys(extracted_watermarks)
             w    == MostCommonLast(extracted_watermarks, Tail(keys), Head(keys))
         IN  [raised |-> FALSE, winner |-> w,
              conf   |-> <<Count(extracted_watermarks, w), Len(extracted_watermarks)>>]

\* VideoWatermark._calculate_majority_vote.  On an empty list
\* most_common(1) is [] and [0] raises IndexError.  confidence is the
\* quotient count / len, kept as <<count, len>>.
calculate_majority_vote(extracted_watermarks) ==
    IF extracted_watermarks = <<>> THEN [raised |-> TRUE, winner |-> <<>>, conf |-> <<0, 1>>]
    ELSE LET keys == CounterKeys(extracted_watermarks)
             most_common_watermark ==
                 MostCommon(extracted_watermarks, Tail(keys), Head(keys))
         IN  [raised |-> FALSE,
              winner |-> most_common_watermark,
              conf   |-> <<Count(extracted_watermarks, most_common_watermark),
                           Len(extracted_watermarks)>>]

\* longest list given to the vote
MaxVotes == 4
\* "AB", "XY", "A"
VoteStrings == {<<65, 66>>, <<88, 89>>, <<65>>}

\* A call of _calculate_majority_vote on a non-empty list of strings.
VoteCall ==
    /\ votePc = "idle"
    /\ \E xs \in SeqsOf(VoteStrings, 1, MaxVotes) :
        LET r == calculate_majority_vote(xs)
        IN  /\ voteList' = xs
            /\ voteWinner' = IF r.raised THEN None ELSE Some(r.winner)
            /\ voteConf' = r.conf
    /\ votePc' = "voted"
    /\ UNCHANGED voteFrame

-----------------------------------------------------------------------------
(* VideoWatermark.extract: video_watermark.py *)

\* most frames a video has (CAP_PROP_FRAME_COUNT)
MaxFrames == 5
\* largest frame_interval passed
MaxInterval == 3
\* largest sample_frames passed
MaxSample == 3

SupportedMethods == {"dwtDct", "dwtDctSvd"}

\* list(range(0, stop, step)) for step >= 1.
PyRange0(stop, step) ==
    IF stop <= 0 THEN <<>>
    ELSE [k \in 1..(((stop - 1) \div step) + 1) |-> (k - 1) * step]

\* The sampling without the sample_frames bound: every frame_interval-th
\* frame of the whole video.
FrameIndices_Unbounded(total_frames, sample_frames, frame_interval) ==
    PyRange0(total_frames, frame_interval)

\* A sampling that takes every frame below the bound.
FrameIndices_EveryFrame(total_frames, sample_frames, frame_interval) ==
    PyRange0(Min(total_frames, sample_frames * frame_interval), 1)

\* lines 439-445: range(0, min(total_frames, sample_frames * frame_interval),
\* frame_interval)
FrameIndices(total_frames, sample_frames, frame_interval) ==
    PyRange0(Min(total_frames, sample_frames * frame_interval), frame_interval)

\* _validate_extract_params (lines 62-84); pathOk: the path exists and has a
\* supported suffix.
validate_extract_params(pathOk, extract_length, method, frame_interval, sample_frames) ==
    /\ pathOk
    /\ method \in SupportedMethods
    /\ extract_length >= 1
    /\ frame_interval >= 1
    /\ sample_frames >= 1

\* The frame file cv2.imwrite leaves for ImageWatermark.extract: it exists
\* and is readable, and carries what the frame carries.
FramePayloads == {None, Some(<<65, 66>>), Some(<<88, 89>>), Some(<<255>>)}
FrameFile(payload) ==
    [exists |-> TRUE, readable |-> TRUE, payload |-> payload, blind |-> None]

\* lines 352-354: self.image_watermark.extract(temp_frame_path,
\* extract_length, method).  The arguments are positional, so extract_length
\* lands on ImageWatermark.extract's second parameter, `method`, and the
\* method name on its third, `password_img`.
ExtractFrameWatermark(file, extract_length, method, available) ==
    ImageExtract(file, IntArg(extract_length), StrArg(method), available)

\* `if watermark:` - neither None nor the empty string.
Truthy(watermark) == watermark # None /\ watermark[1] # <<>>

\* The end of _extract_watermark_from_video with the emptiness test left
\* out: the vote is evaluated on whatever was collected.
Aggregate_NoGuard(extracted_watermarks) ==
    LET r == calculate_majority_vote(extracted_watermarks)
    IN  [voted  |-> {extracted_watermarks},
         result |-> IF r.raised THEN None ELSE Some(r.winner)]

\* lines 452-459, and extract's handler (415-417) for an exception of the
\* vote: the lists the vote was evaluated on, and extract's return value.
Aggregate(extracted_watermarks) ==
    IF extracted_watermarks = <<>> THEN [voted |-> {}, result |-> None]
    ELSE LET r == calculate_majority_vote(extracted_watermarks)
         IN  [voted  |-> {extracted_watermarks},
              result |-> IF r.raised THEN None ELSE Some(r.winner)]

\* VideoWatermark.extract is called: lines 403-409.
ExtractCall ==
    /\ NoCallYet
    /\ \E pathOk \in BOOLEAN, opens \in BOOLEAN, available \in BOOLEAN,
          total \in 0..MaxFrames,
          extract_length \in {0, 4},
          method \in SupportedMethods \cup {"lsb"},
          frame_interval \in 0..MaxInterval,
          sample_frames \in 0..MaxSample :
        /\ vArgs' = Some([extract_length |-> extract_length, method |-> method,
                          frame_interval |-> frame_interval,
                          sample_frames |-> sample_frames])
        /\ vVideo' = Some([pathOk |-> pathOk, opens |-> opens,
                           total_frames |-> total, available |-> available])
        /\ IF validate_extract_params(pathOk, extract_length, method,
                                      frame_interval, sample_frames)
           THEN vPc' = "open"
           ELSE vPc' = "done"
    /\ vResult' = None
    /\ UNCHANGED <<vIndices, vPos, vExtracted, vImageCalls, vVoteInputs, vCapOpen>>
    /\ UNCHANGED videoFrame

\* lines 431-446: open the capture, read the frame count, choose the frames.
OpenCapture ==
    /\ vPc = "open"
    /\ IF vVideo[1].opens
       THEN /\ vCapOpen' = TRUE
            /\ vIndices' = FrameIndices(vVideo[1].total_frames,
                                        vArgs[1].sample_frames,
                                        vArgs[1].frame_interval)
            /\ vPc' = "frames"
       ELSE /\ vPc' = "done"
            /\ UNCHANGED <<vCapOpen, vIndices>>
    /\ UNCHANGED <<vArgs, vVideo, vPos, vExtracted, vImageCalls, vVoteInputs, vResult>>
    /\ UNCHANGED videoFrame

\* One iteration of the loop of _extract_frame_watermarks (lines 342-359):
\* cap.read() fails, or delivers a frame carrying some payload.
ExtractFrame ==
    /\ vPc = "frames"
    /\ vPos < Len(vIndices)
    /\ \E ret \in BOOLEAN, payload \in FramePayloads :
        LET frame_idx == vIndices[vPos + 1]
            watermark == ExtractFrameWatermark(FrameFile(payload),
                             vArgs[1].extract_length, vArgs[1].method,
                             vVideo[1].available)
        IN  IF ~ret
            THEN /\ payload = None
                 /\ UNCHANGED <<vExtracted, vImageCalls>>
            ELSE /\ vImageCalls' = Append(vImageCalls,
                        [frame_idx |-> frame_idx, payload |-> payload,
                         watermark |-> watermark])
                 /\ vExtracted' = IF Truthy(watermark)
                                  THEN Append(vExtracted, watermark[1])
                                  ELSE vExtracted
    /\ vPos' = vPos + 1
    /\ UNCHANGED <<vPc, vArgs, vVideo, vIndices, vVoteInputs, vCapOpen, vResult>>
    /\ UNCHANGED videoFrame

\* An iteration of that loop raises (cv2.imwrite on an unwritable temporary
\* directory, a library error): the exception leaves through the finally
\* clause (line 462), which releases the capture, to extract's handler
\* (lines 415-417), which returns None.
ExtractFrameRaises ==
    /\ vPc = "frames"
    /\ vPos < Len(vIndices)
    /\ vCapOpen' = FALSE
    /\ vResult' = TryExcept(Raise)
    /\ vPc' = "done"
    /\ UNCHANGED <<vArgs, vVideo, vIndices, vPos, vExtracted, vImageCalls, vVoteInputs>>
    /\ UNCHANGED videoFrame

\* lines 452-462: the loop is over; vote, release the capture, return.
AggregateStep ==
    /\ vPc = "frames"
    /\ vPos = Len(vIndices)
    /\ LET r == Aggregate(vExtracted)
       IN  /\ vVoteInputs' = vVoteInputs \cup r.voted
           /\ vResult' = r.result
    /\ vCapOpen' = FALSE
    /\ vPc' = "done"
    /\ UNCHANGED <<vArgs, vVideo, vIndices, vPos, vExtracted, vImageCalls>>
    /\ UNCHANGED videoFrame

-----------------------------------------------------------------------------
(* Two threads of one process, each running _embed_dct_watermark or         *)
(* _extract_dct_watermark on a buffer of its own.  The only state they      *)
(* share is numpy's process-wide generator, which                           *)
(* _generate_pseudorandom_sequence uses in two calls: np.random.seed(seed)  *)
(* and then np.random.randn(length).  Each of the two calls is atomic       *)
(* (numpy's generator takes its lock for the call); a thread switch can     *)
(* happen between them.                                                     *)

Threads == {1, 2}
ParOps == {"embed", "detect"}
\* the coefficient frames the threads work on
ParSignals ==
    {[i \in 1..NumFrames |-> [p \in 1..FrameLength |-> 200 * v]] : v \in {1, -2}}
ParAlphas == {100}
ParJobs ==
    [op : ParOps, frames : ParSignals, text : WatermarkTexts, alpha : ParAlphas,
     password : Seeds]
NoJob == [op |-> "none", frames |-> <<>>, text |-> <<>>, alpha |-> 0, password |-> 0]

\* The length argument of the job's _generate_pseudorandom_sequence call:
\* len(watermark) when embedding, watermark_length when detecting.
JobLength(job) ==
    IF job.op = "embed" THEN Len(string_to_binary(job.text)) ELSE 8 * Len(job.text)

\* The frame loop of the job, run with the carrier pn: the coefficients
\* embed returns, or the bits detect returns.
JobLoop(job, pn) ==
    IF job.op = "embed"
    THEN EmbedLoop(job.frames, 1, 0, string_to_binary(job.text), pn, job.alpha)
    ELSE ExtractLoop(job.frames, 1, 0, 8 * Len(job.text), pn,
                     [k \in 1..(8 * Len(job.text)) |-> 0])

\* What the job returns when nothing else runs during it.
JobAlone(job) ==
    IF job.op = "embed"
    THEN embed_dct_watermark(0, job.frames, string_to_binary(job.text), job.alpha,
                             job.password).frames
    ELSE extract_dct_watermark(0, job.frames, 8 * Len(job.text), job.password).bits

\* Both threads are handed their calls.
ParCall ==
    /\ \A t \in Threads : parPc[t] = "idle"
    /\ \E jobs \in [Threads -> ParJobs] : parJob' = jobs
    /\ parPc' = [t \in Threads |-> "called"]
    /\ UNCHANGED <<rng, parPn, parOut, parFrame>>

\* np.random.seed(seed)
ParSeed(t) ==
    /\ parPc[t] = "called"
    /\ rng' = RngSeed(parJob[t].password)
    /\ parPc' = [parPc EXCEPT ![t] = "seeded"]
    /\ UNCHANGED <<parJob, parPn, parOut, parFrame>>

\* return np.random.randn(length)
ParRandn(t) ==
    /\ parPc[t] = "seeded"
    /\ LET r == RandN(rng, JobLength(parJob[t]))
       IN  /\ parPn' = [parPn EXCEPT ![t] = r.seq]
           /\ rng' = r.rng
    /\ parPc' = [parPc EXCEPT ![t] = "drawn"]
    /\ UNCHANGED <<parJob, parOut, parFrame>>

\* The frame loop, on the thread's own buffer and its own pn_sequence.
ParLoop(t) ==
    /\ parPc[t] = "drawn"
    /\ parOut' = [parOut EXCEPT ![t] = JobLoop(parJob[t], parPn[t])]
    /\ parPc' = [parPc EXCEPT ![t] = "done"]
    /\ UNCHANGED <<rng, parJob, parPn, parFrame>>

-----------------------------------------------------------------------------
(* _embed_dct_watermark and _embed_dwt_watermark on the sample buffer: the  *)
(* framing, the reassembly and the length of what they return.  A sample is *)
(* an integer (a fixed-point amplitude).  The transforms' arithmetic is on  *)
(* reals and is not computed here: the inverse transform of coefficients    *)
(* that were not changed gives the samples back, and the time-domain effect *)
(* of changed coefficients is a perturbation the environment chooses.       *)

\* hop_length (512 in the program): a quarter of frame_length
HopLength == FrameLength \div 4
\* samples beyond one frame in the longest buffer
MaxExtraSamples == 4

Zeros(n) == [p \in 1..n |-> 0]

\* librosa.util.frame(audio, frame_length, hop_length): raises when the
\* buffer is shorter than a frame; frame i (1-based) starts at sample
\* (i - 1) * hop_length.
CanFrame(audio) == Len(audio) >= FrameLength
Frames(audio) ==
    [i \in 1..(1 + (Len(audio) - FrameLength) \div HopLength) |->
        SubSeq(audio, (i - 1) * HopLength + 1, (i - 1) * HopLength + FrameLength)]

\* The frames the loop of _embed_dct_watermark rewrites
\* (watermarked_frames[:, i] = idct(dct_coeffs)) for a payload of K bits.
RewrittenFrames(frames, K) ==
    LET slots == EmbedSlots(frames, 1, 0, Zeros(K), Zeros(K))
    IN  {slots[k].frame : k \in 1..Len(slots)}

\* idct of the changed coefficients of a frame: the frame's samples plus the
\* perturbation d, with alternating sign.
Perturbed(frame, d) ==
    [p \in 1..Len(frame) |-> frame[p] + (IF p % 2 = 1 THEN d ELSE -d)]

\* Lines 231-240: watermarked_audio = np.zeros_like(audio), then every frame
\* is added at offset i * hop_length.
OverlapAdd(n, watermarked_frames) ==
    LET RECURSIVE At(_, _)
        At(p, i) ==
            IF i > Len(watermarked_frames) THEN 0
            ELSE LET start == (i - 1) * HopLength
                 IN  (IF start < p /\ p <= start + Len(watermarked_frames[i])
                      THEN watermarked_frames[i][p - start] ELSE 0)
                     + At(p, i + 1)
    IN  [p \in 1..n |-> At(p, 1)]

\* _embed_dct_watermark(audio, watermark, ...) on the buffer: None when
\* framing raises, else the reassembled buffer.
embed_dct_buffer(audio, K, d) ==
    IF ~CanFrame(audio) THEN None
    ELSE LET frames == Frames(audio)
             watermarked_frames ==
                 [i \in 1..Len(frames) |->
                     IF i \in RewrittenFrames(frames, K)
                     THEN Perturbed(frames[i], d) ELSE frames[i]]
         IN  Some(OverlapAdd(Len(audio), watermarked_frames))

\* pywt.waverec of the coefficients of audio: WaveRecLen samples, the first
\* len(audio) of them the input's (perturbed when coefficients were
\* changed), the others e.
wave_rec(audio, changed, d, e) ==
    [p \in 1..WaveRecLen(WaveDecLens(Len(audio)), 2, WaveDecLens(Len(audio))[1]) |->
        IF p <= Len(audio)
        THEN audio[p] + (IF changed THEN (IF p % 2 = 1 THEN d ELSE -d) ELSE 0)
        ELSE e]

\* The reconstruction is returned as it is.
NormalizeLength_Keep(watermarked_audio, n) == watermarked_audio
\* Lines 310-315: truncate a longer reconstruction to len(audio), zero-pad a
\* shorter one.
NormalizeLength(watermarked_audio, n) ==
    IF Len(watermarked_audio) > n THEN SubSeq(watermarked_audio, 1, n)
    ELSE IF Len(watermarked_audio) < n
         THEN watermarked_audio \o Zeros(n - Len(watermarked_audio))
         ELSE watermarked_audio

\* The buffers the calls are given.
BufAudios ==
    {[p \in 1..n |-> v] : n \in 0..(FrameLength + MaxExtraSamples), v \in {0, 5}}
    \cup {[p \in 1..n |-> p] : n \in 0..(FrameLength + MaxExtraSamples)}

\* self._embed_dct_watermark(y, watermark_binary, alpha, password)
EmbedBufferDct ==
    /\ bufPc = "idle"
    /\ \E audio \in BufAudios, t \in WatermarkTexts, seed \in Seeds, d \in {0, 1} :
        LET K == Len(string_to_binary(t))
            out == embed_dct_buffer(audio, K, d)
        IN  /\ bufIn' = audio /\ bufText' = t
            /\ bufRec' = IF out = None THEN <<>> ELSE out[1]
            /\ bufOut' = out
            /\ rng' = IF out = None THEN rng
                      ELSE generate_pseudorandom_sequence(rng, K, seed).rng
    /\ bufMethod' = "dct"
    /\ bufPc' = "done"
    /\ UNCHANGED bufFrame

\* self._embed_dwt_watermark(y, watermark_binary, alpha, password):
\* pywt.wavedec raises on an empty buffer; without PyWavelets the call is
\* _embed_dct_watermark's.
EmbedBufferDwt ==
    /\ bufPc = "idle"
    /\ \E audio \in BufAudios, t \in WatermarkTexts, seed \in Seeds,
          d \in {0, 1}, e \in {0, 1}, PYWT_AVAILABLE \in BOOLEAN :
        LET K == Len(string_to_binary(t))
            fallback == embed_dct_buffer(audio, K, d)
            rec == wave_rec(audio, K > 0, d, e)
        IN  /\ bufIn' = audio /\ bufText' = t
            /\ IF ~PYWT_AVAILABLE
               THEN /\ e = 0
                    /\ bufMethod' = "dct"
                    /\ bufRec' = (IF fallback = None THEN <<>> ELSE fallback[1])
                    /\ bufOut' = fallback
                    /\ rng' = IF fallback = None THEN rng
                              ELSE generate_pseudorandom_sequence(rng, K, seed).rng
               ELSE /\ bufMethod' = "dwt"
                    /\ IF Len(audio) = 0
                       THEN /\ d = 0 /\ e = 0
                            /\ bufRec' = <<>> /\ bufOut' = None /\ rng' = rng
                       ELSE /\ bufRec' = rec
                            /\ bufOut' = Some(NormalizeLength(rec, Len(audio)))
                            /\ rng' = generate_pseudorandom_sequence(rng, K, seed).rng
    /\ bufPc' = "done"
    /\ UNCHANGED bufFrame

-----------------------------------------------------------------------------
(* AudioWatermark.extract: audio_watermark.py lines 109-162.  An audio file *)
(* is what the call finds of it: whether the path exists, whether           *)
(* librosa.load reads it, and its samples as each transform delivers them - *)
(* the DCT coefficient frames (<<>>: the buffer is shorter than a frame and *)
(* librosa.util.frame raises), the wavelet coefficient list (<<>>: the      *)
(* buffer is empty and pywt.wavedec raises), the columns of the magnitude   *)
(* spectrogram (<<>>: librosa.stft raises on the empty buffer).             *)

AudioMethods == {"dct", "dwt", "spectrogram"}

\* rows of the spectrogram: 1 + n_fft / 2
SpectrogramRows == FrameLength \div 2 + 1

NoAudio == [frames |-> <<>>, coeffs |-> <<>>, magnitude |-> <<>>]
AudioFiles ==
    {[exists |-> FALSE, loadable |-> FALSE, audio |-> NoAudio],
     [exists |-> TRUE, loadable |-> FALSE, audio |-> NoAudio],
     [exists |-> TRUE, loadable |-> TRUE, audio |-> NoAudio],
     [exists |-> TRUE, loadable |-> TRUE,
      audio |-> [frames |-> <<>>,
                 coeffs |-> [i \in 1..(DwtLevel + 1) |->
                                [p \in 1..WaveDecLens(1)[i] |-> 200]],
                 magnitude |-> <<[f \in 1..SpectrogramRows |-> 2]>>]],
     [exists |-> TRUE, loadable |-> TRUE,
      audio |-> [frames |-> [i \in 1..NumFrames |->
                                [p \in 1..FrameLength |->
                                    200 * (IF (p + i) % 2 = 0 THEN 1 ELSE -1)]],
                 coeffs |-> [i \in 1..(DwtLevel + 1) |->
                                [p \in 1..WaveDecLens(40)[i] |->
                                    200 * (IF p % 2 = 0 THEN 3 ELSE -3)]],
                 magnitude |-> [t \in 1..NumFrames |->
                                   [f \in 1..SpectrogramRows |-> 1 + 3 * (t % 2)]]]]}

\* The loop of _extract_spectrogram_watermark from column t on (1-based):
\* bit 1 when magnitude[f, t] * pn > mean(magnitude[f, :]); a carrier value
\* is in halves.
RECURSIVE ExtractSpectrogramLoop(_, _, _, _, _, _)
ExtractSpectrogramLoop(magnitude, t, idx, watermark_length, pn, extracted_watermark) ==
    IF t > Len(magnitude) \/ idx >= watermark_length THEN extracted_watermark
    ELSE LET rows == Len(magnitude[t])
             freq_start == rows \div 4
             freq_end == (3 * rows) \div 4
             count == Min(freq_end, freq_start + watermark_length - idx) - freq_start
             RowSum(f) ==
                 LET RECURSIVE S(_)
                     S(u) == IF u > Len(magnitude) THEN 0
                             ELSE magnitude[u][f + 1] + S(u + 1)
                 IN  S(1)
             next ==
                 [k \in 1..watermark_length |->
                     IF k > idx /\ k <= idx + count
                     THEN LET f == freq_start + (k - idx - 1)
                          IN  IF magnitude[t][f + 1] * pn[k] * Len(magnitude)
                                    > 2 * RowSum(f)
                              THEN 1 ELSE 0
                     ELSE extracted_watermark[k]]
         IN  ExtractSpectrogramLoop(magnitude, t + 1, idx + count, watermark_length,
                                    pn, next)

\* One of the three _extract_*_watermark methods on the loaded buffer, with
\* the generator in state `state`: whether it raises, the bit array it
\* returns and the state the generator is left in.  The transform comes first; then
\* _generate_pseudorandom_sequence, where np.random.randn raises on a
\* negative length after np.random.seed has run.
extract_bits(state, audio, transform, n, password) ==
    IF audio[transform] = <<>> THEN [raised |-> TRUE, bits |-> <<>>, rng |-> state]
    ELSE IF n < 0 THEN [raised |-> TRUE, bits |-> <<>>, rng |-> RngSeed(password)]
    ELSE LET g == generate_pseudorandom_sequence(state, n, password)
         IN  [raised |-> FALSE,
              bits |->
                 IF transform = "frames"
                 THEN ExtractLoop(audio.frames, 1, 0, n, g.seq, Zeros(n))
                 ELSE IF transform = "coeffs"
                 THEN extract_dwt_coeffs(audio.coeffs, n, g.seq)
                 ELSE ExtractSpectrogramLoop(audio.magnitude, 1, 0, n, g.seq, Zeros(n)),
              rng |-> g.rng]

\* The body of extract's try block (lines 129-158).
AudioExtractBody(state, file, method, watermark_length, password, PYWT_AVAILABLE) ==
    IF ~file.exists THEN [result |-> None, rng |-> state]
    ELSE IF ~file.loadable THEN [result |-> Raise, rng |-> state]
    ELSE IF method \notin AudioMethods THEN [result |-> None, rng |-> state]
    ELSE LET transform ==
                 IF method = "dct" \/ (method = "dwt" /\ ~PYWT_AVAILABLE) THEN "frames"
                 ELSE IF method = "dwt" THEN "coeffs"
                 ELSE "magnitude"
             r == extract_bits(state, file.audio, transform, watermark_length * 8,
                               password)
         IN  [result |-> IF r.raised THEN Raise
                         ELSE Some(binary_to_string(r.bits)),
              rng |-> r.rng]

\* AudioWatermark.extract(input_path, method, watermark_length, password).
AudioExtract(state, file, method, watermark_length, password, PYWT_AVAILABLE) ==
    LET body == AudioExtractBody(state, file, method, watermark_length, password,
                                 PYWT_AVAILABLE)
    IN  [result |-> TryExcept(body.result), rng |-> body.rng]

\* A call of AudioWatermark.extract on some audio file.
AudioExtractCall ==
    /\ NoCallYet
    /\ \E file \in AudioFiles, method \in AudioMethods \cup {"lsb"},
          watermark_length \in {-1, 0, 1}, password \in Seeds,
          PYWT_AVAILABLE \in BOOLEAN :
        LET r == AudioExtract(rng, file, method, watermark_length, password,
                              PYWT_AVAILABLE)
        IN  /\ axCall' = Some([file |-> file, method |-> method,
                               watermark_length |-> watermark_length,
                               password |-> password,
                               PYWT_AVAILABLE |-> PYWT_AVAILABLE])
            /\ axResult' = r.result
            /\ rng' = r.rng
    /\ axPc' = "done"
    /\ UNCHANGED axFrame

-----------------------------------------------------------------------------
(* The embed calls of the three classes and the filesystem: what each call  *)
(* returns, whether the output directory exists afterwards and which files  *)
(* it wrote.  A call is its arguments and what it finds: whether the input  *)
(* exists and has a supported suffix, whether the output directory exists,  *)
(* and the step, if any, at which a library call fails.                     *)

FailPoints == {"none", "mkdir", "read", "process", "write"}
EmbedMethodArgs == {"dct", "dwtDct", "blind", "lsb"}
ImageEmbedMethods == InvisibleMethods \cup {"blind"}

EmbedCalls ==
    [exists : BOOLEAN, suffixOk : BOOLEAN, method : EmbedMethodArgs,
     blank : BOOLEAN, frame_interval : 0..MaxInterval, dirBefore : BOOLEAN,
     fail : FailPoints]

Outcome(result, dir, written) == [result |-> result, dir |-> dir, written |-> written]

\* AudioWatermark.embed, lines 59-107.
audio_embed(c) ==
    IF ~c.exists \/ ~c.suffixOk THEN Outcome(FALSE, c.dirBefore, {})
    \* output_path.parent.mkdir(parents=True, exist_ok=True)
    ELSE IF ~c.dirBefore /\ c.fail = "mkdir" THEN Outcome(FALSE, FALSE, {})
    \* librosa.load
    ELSE IF c.fail = "read" THEN Outcome(FALSE, TRUE, {})
    ELSE IF c.method \notin AudioMethods THEN Outcome(FALSE, TRUE, {})
    \* the transform raises, or _save_audio does
    ELSE IF c.fail \in {"process", "write"} THEN Outcome(FALSE, TRUE, {})
    ELSE Outcome(TRUE, TRUE, {"output"})

\* ImageWatermark.embed, lines 56-81.
image_embed(c) ==
    IF ~c.exists \/ ~c.suffixOk THEN Outcome(FALSE, c.dirBefore, {})
    ELSE IF ~c.dirBefore /\ c.fail = "mkdir" THEN Outcome(FALSE, FALSE, {})
    ELSE IF c.method \notin ImageEmbedMethods THEN Outcome(FALSE, TRUE, {})
    \* cv2.imread returns None, the encoder raises, cv2.imwrite fails
    ELSE IF c.fail \in {"read", "process", "write"} THEN Outcome(FALSE, TRUE, {})
    ELSE Outcome(TRUE, TRUE, {"output"})

\* VideoWatermark._validate_embed_params, lines 42-60.
validate_embed_params(c) ==
    /\ c.exists /\ c.suffixOk
    /\ c.method \in SupportedMethods
    /\ ~c.blank
    /\ ~(c.frame_interval < 1)

\* VideoWatermark.embed, lines 200-217, and _embed_watermark: the temporary
\* directory, the reader, the writer and the frames, then the merge into the
\* output file.
video_embed(c) ==
    IF ~validate_embed_params(c) THEN Outcome(FALSE, c.dirBefore, {})
    ELSE IF ~c.dirBefore /\ c.fail = "mkdir" THEN Outcome(FALSE, FALSE, {})
    ELSE IF c.fail \in {"read", "process"} THEN Outcome(FALSE, TRUE, {"temp"})
    ELSE IF c.fail = "write" THEN Outcome(FALSE, TRUE, {"temp"})
    ELSE Outcome(TRUE, TRUE, {"temp", "output"})

\* The call's effect on the state.
EmbedReturns(c, class, out) ==
    /\ fsCall' = Some([class |-> class, args |-> c])
    /\ fsDirBefore' = c.dirBefore
    /\ fsDirAfter' = out.dir
    /\ fsWritten' = out.written
    /\ fsResult' = out.result
    /\ fsPc' = "done"
    /\ UNCHANGED fsFrame

AudioEmbedCall ==
    /\ NoCallYet
    /\ \E c \in EmbedCalls :
        /\ ~c.blank /\ c.frame_interval = 1
        /\ EmbedReturns(c, "audio", audio_embed(c))

ImageEmbedCall ==
    /\ NoCallYet
    /\ \E c \in EmbedCalls :
        /\ ~c.blank /\ c.frame_interval = 1
        /\ EmbedReturns(c, "image", image_embed(c))

VideoEmbedCall ==
    /\ NoCallYet
    /\ \E c \in EmbedCalls : EmbedReturns(c, "video", video_embed(c))

-----------------------------------------------------------------------------
(* The sign-force embedder and detector.  The files of the program at hand  *)
(* hold the spread-spectrum policy only; the sign-force policy is modelled  *)
(* from its description: band [L/4, 3L/4) of one coefficient vector, the    *)
(* first K indices in ascending order, total_bits shrunk to the band when   *)
(* the payload is longer.  Coefficients are in units of 1/200 as above.     *)

\* modification_strength, default 0.01
modification_strength == 200 \div 100
\* longest payload given to the sign-force embedder
MaxSignBits == 7

Max(a, b) == IF a >= b THEN a ELSE b

\* A policy that sets the sign and keeps the magnitude.
SignForceCoeff_KeepMagnitude(x, bit) == IF bit = 1 THEN Abs(x) ELSE -Abs(x)
\* A policy that adds the strength to the magnitude.
SignForceCoeff_AddStrength(x, bit) ==
    IF bit = 1 THEN Abs(x) + modification_strength
    ELSE -(Abs(x) + modification_strength)
\* coeff[j] <- +max(|coeff[j]|, modification_strength) for bit 1, the
\* negative of it for bit 0.
SignForceCoeff(x, bit) ==
    IF bit = 1 THEN Max(Abs(x), modification_strength)
    ELSE -Max(Abs(x), modification_strength)

\* 1 if positive, 0 if negative or zero
SignDetect(x) == IF x > 0 THEN 1 ELSE 0

\* total_bits: the payload length, shrunk to the band.
SignTotalBits(L, K) == Min(K, mid_freq_end(L) - mid_freq_start(L))

sign_force_embed(coeffs, bits) ==
    LET L == Len(coeffs)
        total_bits == SignTotalBits(L, Len(bits))
    IN  [p \in 1..L |->
            IF p - 1 >= mid_freq_start(L) /\ p - 1 < mid_freq_start(L) + total_bits
            THEN SignForceCoeff(coeffs[p], bits[p - mid_freq_start(L)])
            ELSE coeffs[p]]

sign_force_detect(coeffs, K) ==
    LET L == Len(coeffs)
    IN  [i \in 1..SignTotalBits(L, K) |-> SignDetect(coeffs[mid_freq_start(L) + i])]

\* The coefficient vectors the runs start from: constant ones, zero and
\* magnitudes below the strength among them, and alternating ones.
SignVectors ==
    {[p \in 1..FrameLength |-> v] : v \in {-400, -1, 0, 1, 200}}
    \cup {[p \in 1..FrameLength |-> IF p % 2 = 0 THEN v ELSE -v] : v \in {1, 400}}
    \cup {[p \in 1..FrameLength |-> IF p % 3 = 0 THEN 0 ELSE 200 * (p % 3) - 300]}

SignForceEmbed ==
    /\ sfPc = "idle"
    /\ \E coeffs \in SignVectors, bits \in SeqsOf({0, 1}, 0, MaxSignBits) :
        /\ sfOrig' = coeffs
        /\ sfBits' = bits
        /\ sfOnce' = sign_force_embed(coeffs, bits)
    /\ sfPc' = "embedded"
    /\ UNCHANGED <<sfSecond, sfAgain, sfDetected, sfFrame>>

\* The same payload is embedded a second time into the original
\* coefficients, and once more into the coefficients already embedded.
SignForceReEmbed ==
    /\ sfPc = "embedded"
    /\ sfSecond' = sign_force_embed(sfOrig, sfBits)
    /\ sfAgain' = sign_force_embed(sfOnce, sfBits)
    /\ sfPc' = "reembedded"
    /\ UNCHANGED <<sfOrig, sfBits, sfOnce, sfDetected, sfFrame>>

SignForceDetect ==
    /\ sfPc = "reembedded"
    /\ sfDetected' = sign_force_detect(sfOnce, Len(sfBits))
    /\ sfPc' = "detected"
    /\ UNCHANGED <<sfOrig, sfBits, sfOnce, sfSecond, sfAgain, sfFrame>>

-----------------------------------------------------------------------------
(* The codec specification: the payload codec and ImageWatermark.extract,   *)
(* one call at a time.                                                      *)

BitSeqs(lo, hi) == SeqsOf({0, 1}, lo, hi)

ImageMethodArgs ==
    {StrArg(m) : m \in InvisibleMethods \cup {"blind", "lsb"}} \cup {IntArg(2)}

CodecIdle ==
    /\ codecPc = "idle" /\ text = <<>> /\ sent = <<>>
    /\ received = <<>> /\ decoded = <<>>
ImageIdle ==
    /\ imgPc = "idle" /\ imgFile = None /\ imgMethod = None /\ imgResult = None
CarrierIdle ==
    /\ rng \in EntropyStates /\ carrierCalls = 0 /\ carrierArgs = <<>>
    /\ carrierOut = <<>> /\ carrierFirst = {} /\ carrierBefore = rng
SSIdle ==
    /\ ssPc = "idle" /\ ssText = <<>> /\ ssAlpha = 0 /\ ssSeed = 0
    /\ ssOrig = <<>> /\ ssCoeffs = <<>> /\ ssBits = <<>> /\ ssDecoded = <<>>
    /\ ssMethod = "none" /\ ssLog = <<>> /\ ssReadLog = <<>>
    /\ ssReport = [returned |-> FALSE, messages |-> {}]
VoteIdle ==
    /\ votePc = "idle" /\ voteList = <<>> /\ voteWinner = None
    /\ voteConf = <<0, 1>>
VideoIdle ==
    /\ vPc = "idle" /\ vArgs = None /\ vVideo = None /\ vIndices = <<>>
    /\ vPos = 0 /\ vExtracted = <<>> /\ vImageCalls = <<>>
    /\ vVoteInputs = {} /\ vCapOpen = FALSE /\ vResult = None

ParIdle ==
    /\ parPc = [t \in Threads |-> "idle"] /\ parJob = [t \in Threads |-> NoJob]
    /\ parPn = [t \in Threads |-> <<>>] /\ parOut = [t \in Threads |-> <<>>]

BufIdle ==
    /\ bufPc = "idle" /\ bufIn = <<>> /\ bufMethod = "none" /\ bufText = <<>>
    /\ bufRec = <<>> /\ bufOut = None

FsIdle ==
    /\ fsPc = "idle" /\ fsCall = None /\ fsDirBefore = FALSE /\ fsDirAfter = FALSE
    /\ fsWritten = {} /\ fsResult = FALSE
AxIdle ==
    /\ axPc = "idle" /\ axCall = None /\ axResult = None

SfIdle ==
    /\ sfPc = "idle" /\ sfOrig = <<>> /\ sfBits = <<>> /\ sfOnce = <<>>
    /\ sfSecond = <<>> /\ sfAgain = <<>> /\ sfDetected = <<>>

BatchIdle ==
    /\ bPc = "idle" /\ bCall = None /\ bFiles = <<>> /\ bResults = <<>>
    /\ bCount = 0 /\ bOutDir = FALSE /\ bReturn = None

VEmbedIdle ==
    /\ vePc = "idle" /\ veArgs = None /\ veTotal = 0 /\ veWritten = <<>>
    /\ veFrameCount = 0 /\ veWatermarkedCount = 0 /\ veReader = "none"
    /\ veWriter = "none" /\ veRaised = FALSE /\ veResult = None
    /\ veSampled = None

CliIdle ==
    /\ cliPc = "idle" /\ cliCmd = None /\ cliExit = "none"
    /\ cliCall = [made |-> FALSE, raised |-> FALSE, bound |-> <<>>]

\* The state after construction: nothing has been called.
Init ==
    /\ CodecIdle /\ ImageIdle /\ CarrierIdle /\ SSIdle /\ VoteIdle /\ VideoIdle
    /\ ParIdle /\ BufIdle /\ FsIdle /\ AxIdle /\ SfIdle
    /\ BatchIdle /\ VEmbedIdle /\ CliIdle

\* The specifications whose operations never touch numpy's generator start
\* from one of its states.
InitQuiet == Init /\ rng = 0

\* watermark_binary = self._string_to_binary(watermark)
StringToBinary ==
    /\ codecPc = "idle" /\ imgPc = "idle"
    /\ \E t \in Texts :
        /\ text' = t
        /\ sent' = string_to_binary(t)
    /\ codecPc' = "encoded"
    /\ UNCHANGED <<received, decoded, imgVars, codecFrame>>

\* The bit array that reaches the decoder: the encoded bits followed by up
\* to MaxTailBits further bits.
AppendTail ==
    /\ codecPc = "encoded"
    /\ \E tail \in BitSeqs(0, MaxTailBits) : received' = sent \o tail
    /\ codecPc' = "received"
    /\ UNCHANGED <<text, sent, decoded, imgVars, codecFrame>>

\* watermark = self._binary_to_string(watermark_binary)
BinaryToString ==
    /\ codecPc = "received"
    /\ decoded' = binary_to_string(received)
    /\ codecPc' = "decoded"
    /\ UNCHANGED <<text, sent, received, imgVars, codecFrame>>

\* A call of ImageWatermark.extract on some image file.
ImageExtractCall ==
    /\ NoCallYet /\ codecPc = "idle"
    /\ \E f \in ImageFiles, m \in ImageMethodArgs, available \in BOOLEAN :
        /\ imgFile' = Some(f)
        /\ imgMethod' = Some(m)
        /\ imgResult' = ImageExtract(f, m, IntArg(1), available)
    /\ imgPc' = "done"
    /\ UNCHANGED <<codecVars, codecFrame>>

CodecNext ==
    \/ StringToBinary
    \/ AppendTail
    \/ BinaryToString
    \/ ImageExtractCall

SpecCodec == InitQuiet /\ [][CodecNext]_vars


-----------------------------------------------------------------------------
(* The carrier specification: calls of _generate_pseudorandom_sequence.     *)

CarrierNext == GenerateCall

SpecCarrier == Init /\ [][CarrierNext]_vars

-----------------------------------------------------------------------------
(* The spread-spectrum specification: embed, then detect.                   *)

SSNext ==
    \/ EmbedDct
    \/ EmbedDwt
    \/ ExtractDct
    \/ ExtractDwt

SpecSS == Init /\ [][SSNext]_vars


-----------------------------------------------------------------------------
(* The vote specification: _calculate_majority_vote on lists of strings.    *)

VoteNext == VoteCall

SpecVote == InitQuiet /\ [][VoteNext]_vars

-----------------------------------------------------------------------------
(* The two-thread specification: every interleaving of the threads' steps.  *)

ParNext ==
    \/ ParCall
    \/ \E t \in Threads : ParSeed(t)
    \/ \E t \in Threads : ParRandn(t)
    \/ \E t \in Threads : ParLoop(t)

SpecPar == Init /\ [][ParNext]_vars

-----------------------------------------------------------------------------
(* The buffer specification: one embedding call on a sample buffer.         *)

BufNext ==
    \/ EmbedBufferDct
    \/ EmbedBufferDwt

SpecBuf == Init /\ [][BufNext]_vars

-----------------------------------------------------------------------------
(* The sign-force specification: embed, embed again, detect.                *)

SignNext ==
    \/ SignForceEmbed
    \/ SignForceReEmbed
    \/ SignForceDetect

SpecSign == InitQuiet /\ [][SignNext]_vars

-----------------------------------------------------------------------------
(* The main specification: a call of extract or embed of one of the three   *)
(* classes.                                                                 *)

Next ==
    \/ ExtractCall
    \/ OpenCapture
    \/ ExtractFrame
    \/ ExtractFrameRaises
    \/ AggregateStep
    \/ ImageExtractCall
    \/ AudioExtractCall
    \/ AudioEmbedCall
    \/ ImageEmbedCall
    \/ VideoEmbedCall

Spec == InitQuiet /\ [][Next]_vars


-----------------------------------------------------------------------------
(* Properties *)

AB == <<65, 66>>
XY == <<88, 89>>

\* The elements of a sequence.
Range(xs) == {xs[i] : i \in 1..Len(xs)}

\* Index of the first occurrence of x in xs.
FirstIndex(xs, x) == CHOOSE i \in 1..Len(xs) : xs[i] = x /\ \A j \in 1..(i - 1) : xs[j] # x

\* The 8 bits of a byte, most significant first.
Byte8(b) == [i \in 1..8 |-> (b \div (2 ^ (8 - i))) % 2]
\* The bits of a string's UTF-8 bytes.
Utf8Bits(t) == LET bs == Utf8Encode(t) IN Concat([i \in 1..Len(bs) |-> Byte8(bs[i])])
\* The bytes a bit sequence holds: its complete groups of 8.
BytesOfBits(bits) ==
    [i \in 1..(Len(bits) \div 8) |-> IntBase2(SubSeq(bits, 8 * (i - 1) + 1, 8 * i))]
\* A bit sequence written out as a string of '0' and '1'.
BitPattern(bits) == [i \in 1..Len(bits) |-> 48 + bits[i]]

\* C1: spread-spectrum round trip - when an ASCII string whose bits fit in
\* the eligible band has been embedded and the modified coefficients have
\* been read back with the same seed and length, the decoded string is the
\* embedded one.
C1_RoundTrip ==
    (/\ ssPc = "detected"
     /\ ssMethod = "dct"
     /\ IsAscii(ssText)
     /\ 8 * Len(ssText) <= Capacity(ssOrig))
    => ssDecoded = ssText

\* C2: majority vote - on a non-empty list the vote returns a string of the
\* list whose count is the maximum over the list, with confidence
\* count(winner) / len(list), so 0 < confidence <= 1; AB, AB, AB, XY gives AB
\* with 0.75.
C2_MajorityVote ==
    votePc = "voted" =>
        /\ voteWinner # None
        /\ voteWinner[1] \in Range(voteList)
        /\ \A x \in Range(voteList) : Count(voteList, x) <= Count(voteList, voteWinner[1])
        /\ voteConf = <<Count(voteList, voteWinner[1]), Len(voteList)>>
        /\ 0 < voteConf[1] /\ voteConf[1] <= voteConf[2]
        /\ (voteList = <<AB, AB, AB, XY>> =>
                voteWinner = Some(AB) /\ 100 * voteConf[1] = 75 * voteConf[2])

C2_Witness ==
    /\ votePc = "voted"
    /\ voteList = <<AB, AB, AB, XY>>
    /\ voteWinner = Some(AB)
    /\ voteConf = <<3, 4>>

\* C3: when no sampled frame yields a non-empty extraction result, extract
\* returns None, and the majority vote is never evaluated on an empty list.
C3_NoWatermark ==
    /\ <<>> \notin vVoteInputs
    /\ (vPc = "done" /\ vExtracted = <<>>) => vResult = None

C3_Witness ==
    /\ vPc = "done"
    /\ vImageCalls # <<>>
    /\ vPos = Len(vIndices)
    /\ vExtracted = <<>>
    /\ vVoteInputs = {}
    /\ vResult = None

\* C4: when the frame loop has run to its end, every sampled, readable frame
\* whose watermark the per-frame extractor decodes, under the caller's
\* method, to a non-empty string w contributes w
\* to the list given to the majority vote, and extract then returns a string
\* rather than None.
C4_CollectsEveryResult ==
    (vPc = "done" /\ vPos = Len(vIndices) /\ vImageCalls # <<>>) =>
        \A k \in 1..Len(vImageCalls) :
            LET w == ImageExtract(FrameFile(vImageCalls[k].payload),
                                  StrArg(vArgs[1].method), IntArg(1),
                                  vVideo[1].available)
            IN  Truthy(w) =>
                    /\ \E xs \in vVoteInputs : w[1] \in Range(xs)
                    /\ vResult # None

\* C5: ties of the majority vote go to the string inserted first - among the
\* strings with the maximum count the winner is the one whose first
\* occurrence in the list is the earliest.
C5_TieFirstInserted ==
    votePc = "voted" =>
        /\ voteWinner # None
        /\ \A x \in Range(voteList) :
               Count(voteList, x) >= Count(voteList, voteWinner[1])
               => FirstIndex(voteList, voteWinner[1]) <= FirstIndex(voteList, x)

C5_Witness ==
    /\ votePc = "voted"
    /\ voteWinner # None
    /\ \E x \in Range(voteList) :
        /\ x # voteWinner[1]
        /\ Count(voteList, x) = Count(voteList, voteWinner[1])
        /\ FirstIndex(voteList, voteWinner[1]) < FirstIndex(voteList, x)

\* C6: segment sampling - the sampled indices are 0, stride, 2 * stride, ...
\* in ascending order, each below total_frames, and there are
\* min(sample_frames, ceil(total_frames / frame_interval)) of them, never
\* more than sample_frames.
C6_Sampling ==
    vPc = "frames" =>
        LET total    == vVideo[1].total_frames
            stride   == vArgs[1].frame_interval
            samples  == vArgs[1].sample_frames
        IN  /\ Len(vIndices) = Min(samples, (total + stride - 1) \div stride)
            /\ Len(vIndices) <= samples
            /\ \A k \in 1..Len(vIndices) :
                   vIndices[k] = (k - 1) * stride /\ vIndices[k] < total

C6_Witness ==
    /\ vPc = "frames"
    /\ vArgs[1].frame_interval >= 2
    /\ vArgs[1].sample_frames >= 2
    /\ Len(vIndices) = vArgs[1].sample_frames
    /\ vIndices[Len(vIndices)] + vArgs[1].frame_interval < vVideo[1].total_frames

\* C7: the encoder emits, for every string, exactly 8 bits per UTF-8 byte of
\* the string, most significant bit first: 8 * (UTF-8 byte length) bits, bit
\* i belonging to byte floor(i / 8).
C7_EncodeUtf8 ==
    codecPc # "idle" =>
        /\ Len(sent) = 8 * Len(Utf8Encode(text))
        /\ sent = Utf8Bits(text)

\* C8: codec round trip with truncation - for an ASCII string s and r in 0..7
\* extra trailing bits, decoding the encoded bits followed by the r bits
\* gives s; a sequence of n bits decodes to floor(n / 8) characters, each the
\* value of its group of 8 read most significant bit first.
C8_RoundTripTruncation ==
    codecPc = "decoded" =>
        /\ Len(decoded) = Len(received) \div 8
        /\ \A i \in 1..Len(decoded) :
               Byte8(decoded[i]) = SubSeq(received, 8 * (i - 1) + 1, 8 * i)
        /\ (IsAscii(text) /\ Len(received) - Len(sent) <= 7) => decoded = text

C8_Witness ==
    /\ codecPc = "decoded"
    /\ IsAscii(text)
    /\ Len(text) = MaxTextLen
    /\ Len(received) = Len(sent) + 7
    /\ decoded = text

\* C9: when the decoded bytes are not valid UTF-8 the decoder returns the raw
\* bit pattern, and the degraded result can be told apart from a clean
\* decode: no valid payload decodes to the same return value.
C9_FallbackFlagged ==
    /\ (codecPc = "decoded" /\ ~Utf8Valid(BytesOfBits(received)))
       => decoded = BitPattern(received)
    /\ (/\ imgPc = "done"
        /\ imgResult # None
        /\ imgMethod[1].isStr /\ imgMethod[1].s \in InvisibleMethods
        /\ ~Utf8Valid(imgFile[1].payload[1]))
       => \A b \in PayloadBytes :
              Utf8Valid(b) => DecodeWatermarkBytes(b) # imgResult[1]

\* C10: carrier determinism - every call of the generator returns what the
\* first call with the same (length, seed) returned, whatever calls were
\* made in between, and returns `length` values.
C10_CarrierDeterministic ==
    carrierArgs # <<>> =>
        /\ FirstReturn(carrierArgs) = Some(carrierOut)
        /\ Len(carrierOut) = carrierArgs[1]

C10_Witness ==
    /\ carrierCalls = MaxCarrierCalls
    /\ Cardinality(carrierFirst) = 2
    /\ Len(carrierOut) >= 2
    /\ FirstReturn(carrierArgs) = Some(carrierOut)

\* C11: two embed or detect operations on independent buffers, run
\* concurrently under any interleaving of their steps, return exactly what
\* each returns when run alone.
C11_ParallelSafe ==
    (\A t \in Threads : parPc[t] = "done")
        => \A t \in Threads : parOut[t] = JobAlone(parJob[t])

\* The payload bits of the embed call and their number.
SSPayload == string_to_binary(ssText)
\* Slots of a coefficient vector of length L: 3L/4 - L/4 in the cosine path,
\* every coefficient of the detail vector in the wavelet path.
SSBand(L) == IF ssMethod = "dct" THEN (3 * L) \div 4 - L \div 4 ELSE L
SSBandStart(L) == IF ssMethod = "dct" THEN L \div 4 ELSE 0
\* The coefficient vectors that carry bits.
SSCarriers == IF ssMethod = "dct" THEN 1..Len(ssOrig) ELSE {DetailPos}
\* The bit indices the log places in vector i, and in the vectors before it.
SSBitsIn(i) == {k \in 1..Len(ssLog) : ssLog[k].frame = i}
SSBitsBefore(i) == Cardinality({k \in 1..Len(ssLog) : ssLog[k].frame < i})
\* Slots in all the carrying vectors together.
SSCapacity ==
    IF ssMethod = "dct" THEN Capacity(ssOrig) ELSE Len(ssOrig[DetailPos])
SSFailedWith(e) == ~ssReport.returned /\ e \in ssReport.messages

\* C12 as stated: band selection fails with CapacityExceeded whenever the bit
\* count exceeds 3L/4 - L/4 for the coefficient vector of length L, and
\* succeeds otherwise.
C12_CapacityExceeded ==
    (ssPc # "idle" /\ ssMethod = "dct") =>
        LET L == Len(ssOrig[1])
        IN  IF Len(SSPayload) > (3 * L) \div 4 - L \div 4
            THEN SSFailedWith("CapacityExceeded")
            ELSE ssReport.returned

\* C12, amended: band selection never fails.  A coefficient vector of length
\* L that is reached with K bits still to place carries min(K, band) of them,
\* in bit order at consecutive indices from the band's start - band
\* [L/4, 3L/4) of each frame in the cosine path, coefficients 0.. of the
\* detail vector in the wavelet path - and embed returns the buffer without
\* a CapacityExceeded error whatever K is.
C12_BandNeverFails ==
    ssPc # "idle" =>
        /\ ssReport.returned
        /\ "CapacityExceeded" \notin ssReport.messages
        /\ \A i \in SSCarriers :
            LET L == Len(ssOrig[i])
                before == SSBitsBefore(i)
                count == Min(Len(SSPayload) - before, SSBand(L))
            IN  /\ SSBitsIn(i) = (before + 1)..(before + count)
                /\ \A k \in SSBitsIn(i) : ssLog[k].j = SSBandStart(L) + (k - before - 1)
        /\ \A k \in 1..Len(ssLog) : ssLog[k].frame \in SSCarriers

\* A single frame was given more bits than its band holds.
C12_Witness ==
    /\ ssPc # "idle" /\ ssMethod = "dct"
    /\ Len(ssOrig) = 1
    /\ Len(SSPayload) > (3 * Len(ssOrig[1])) \div 4 - Len(ssOrig[1]) \div 4
    /\ Len(ssLog) = (3 * Len(ssOrig[1])) \div 4 - Len(ssOrig[1]) \div 4

\* The coefficients after embedding are the original ones, changed at the
\* logged slots only, slot k by bit k of the payload.
SSExactlyLogged ==
    \A i \in 1..Len(ssOrig) : \A p \in 1..Len(ssOrig[i]) :
        LET ks == {k \in 1..Len(ssLog) : ssLog[k].frame = i /\ ssLog[k].j = p - 1}
        IN  /\ Cardinality(ks) <= 1
            /\ Len(ssCoeffs[i]) = Len(ssOrig[i])
            /\ ssCoeffs[i][p] =
                IF ks = {} THEN ssOrig[i][p]
                ELSE LET k == CHOOSE k \in ks : TRUE
                     IN  EmbedCoeff(ssOrig[i][p], SSPayload[k], ssAlpha, ssLog[k].c)

\* C13: a payload with more bits than there are slots is truncated, not
\* rejected - embed returns, has embedded exactly the first `capacity` bits
\* in order and no others, and reports the truncation to its caller; and
\* extracting a longer-than-capacity length does not fail either.
C13_TruncatedAndReported ==
    (ssPc # "idle" /\ Len(SSPayload) > SSCapacity) =>
        /\ ssReport.returned
        /\ Len(ssLog) = SSCapacity
        /\ SSExactlyLogged
        /\ "truncated" \in ssReport.messages
        /\ ssPc = "detected" => Len(ssBits) = 8 * Len(ssText)

\* The same without the report: what the code does do.
C13_TruncatedSilently ==
    (ssPc # "idle" /\ Len(SSPayload) > SSCapacity) =>
        /\ ssReport.returned
        /\ Len(ssLog) = SSCapacity
        /\ SSExactlyLogged
        /\ ssPc = "detected" => Len(ssBits) = 8 * Len(ssText)

\* The (frame, index) slots of a log.
SlotsOf(log) == [k \in 1..Len(log) |-> <<log[k].frame, log[k].j>>]
\* Coefficient vectors of the same lengths, all zero.
Blank(frames) == [i \in 1..Len(frames) |-> [p \in 1..Len(frames[i]) |-> 0]]

\* C14: slot agreement - with watermark_length equal to the number of
\* embedded bits and a signal of the same length, extraction reads for every
\* bit index the slot and the carrier element embedding used for it; the
\* slots depend on the vectors' lengths and the bit count only.
C14_SlotAgreement ==
    (ssPc = "detected" /\ 8 * Len(ssText) = Len(SSPayload)) =>
        /\ ssReadLog = ssLog
        /\ ssMethod = "dct" =>
            SlotsOf(ssReadLog) =
                SlotsOf(ExtractSlots(Blank(ssCoeffs), 1, 0, Len(SSPayload),
                                     [k \in 1..Len(SSPayload) |-> 1]))

\* Bits were read from two frames, the second frame's from its band start.
C14_Witness ==
    /\ ssPc = "detected" /\ ssMethod = "dct"
    /\ Len(ssReadLog) = 8
    /\ \E k \in 2..Len(ssReadLog) :
        /\ ssReadLog[k].frame = 2 /\ ssReadLog[k - 1].frame = 1
        /\ ssReadLog[k].j = Len(ssCoeffs[2]) \div 4

\* C15: length preservation - the buffer the cosine or wavelet embedding
\* returns has exactly the length of the input buffer, for every input
\* length and payload; in the wavelet path a longer reconstruction is
\* truncated to the input length and a shorter one zero-padded to it.
C15_LengthPreserved ==
    (bufPc = "done" /\ bufOut # None) =>
        /\ Len(bufOut[1]) = Len(bufIn)
        /\ (bufMethod = "dwt" /\ Len(bufRec) > Len(bufIn))
            => bufOut[1] = SubSeq(bufRec, 1, Len(bufIn))
        /\ (bufMethod = "dwt" /\ Len(bufRec) < Len(bufIn))
            => /\ SubSeq(bufOut[1], 1, Len(bufRec)) = bufRec
               /\ \A p \in (Len(bufRec) + 1)..Len(bufIn) : bufOut[1][p] = 0

\* The wavelet reconstruction of a non-empty payload came out longer than
\* the input and a buffer was returned.
C15_Witness ==
    /\ bufPc = "done" /\ bufMethod = "dwt" /\ bufOut # None
    /\ bufText # <<>>
    /\ Len(bufRec) > Len(bufIn)

\* The cosine path returned a buffer of several frames for a non-empty
\* payload.
C15_WitnessDct ==
    /\ bufPc = "done" /\ bufMethod = "dct" /\ bufOut # None
    /\ bufText # <<>>
    /\ Len(bufIn) >= FrameLength + HopLength

\* C16: cosine-path identity - with an empty payload the cosine embedding
\* returns a buffer equal sample for sample to the input buffer, for every
\* input length.
C16_DctIdentity ==
    (bufPc = "done" /\ bufMethod = "dct" /\ bufText = <<>> /\ bufOut # None)
        => bufOut[1] = bufIn

\* The methods each class's embed supports.
EmbedMethodsOf(class) ==
    IF class = "audio" THEN {"dct", "dwt", "spectrogram"}
    ELSE IF class = "image" THEN {"dwtDct", "dwtDctSvd", "rivaGan", "blind"}
    ELSE {"dwtDct", "dwtDctSvd"}
\* The call has a configuration error: an unsupported method name, or for
\* video an empty watermark or frame_interval < 1.
ConfigError(call) ==
    \/ call.args.method \notin EmbedMethodsOf(call.class)
    \/ call.class = "video" /\ (call.args.blank \/ call.args.frame_interval < 1)
FilesystemUnchanged == fsDirAfter = fsDirBefore /\ fsWritten = {}

\* C17: configuration errors surface before any write - an embed call
\* (audio, image or video) with an unsupported method name, or a video embed
\* with an empty watermark or frame_interval < 1, returns failure and leaves
\* the filesystem as it was: no output directory created, no output or
\* temporary file written.
C17_ConfigBeforeWrite ==
    (fsPc = "done" /\ ConfigError(fsCall[1]))
        => (~fsResult /\ FilesystemUnchanged)

\* The same for VideoWatermark.embed alone, which validates before mkdir.
C17_VideoConfigBeforeWrite ==
    (fsPc = "done" /\ fsCall[1].class = "video" /\ ConfigError(fsCall[1]))
        => (~fsResult /\ FilesystemUnchanged)

\* What makes a detection call fail: a missing or unreadable file, an
\* unsupported method, a signal the chosen transform cannot be computed on,
\* a library error.
AudioDetectionFails(call) ==
    \/ ~call.file.exists
    \/ ~call.file.loadable
    \/ call.method \notin {"dct", "dwt", "spectrogram"}
    \/ call.watermark_length < 0
    \/ (call.method = "dct" \/ (call.method = "dwt" /\ ~call.PYWT_AVAILABLE))
        /\ call.file.audio.frames = <<>>
    \/ call.method = "dwt" /\ call.PYWT_AVAILABLE /\ call.file.audio.coeffs = <<>>
    \/ call.method = "spectrogram" /\ call.file.audio.magnitude = <<>>
ImageDetectionFails(file, method) ==
    \/ ~file.exists
    \/ ~method.isStr
    \/ method.s \notin {"dwtDct", "dwtDctSvd", "rivaGan", "blind"}
    \/ method.s = "blind" /\ file.blind = None
    \/ method.s # "blind" /\ (~file.readable \/ file.payload = None)
VideoDetectionFails ==
    \/ ~vVideo[1].pathOk
    \/ ~vVideo[1].opens
    \/ vArgs[1].method \notin {"dwtDct", "dwtDctSvd"}
    \/ vArgs[1].extract_length < 1
    \/ vArgs[1].frame_interval < 1
    \/ vArgs[1].sample_frames < 1
    \/ vPos < Len(vIndices)

\* C18: detection failures are values - none of the three extract calls
\* lets an exception reach its caller, and every failure during detection
\* comes back as None.
C18_FailuresAreNone ==
    /\ axPc = "done" =>
        /\ axResult # Raise
        /\ AudioDetectionFails(axCall[1]) => axResult = None
    /\ imgPc = "done" =>
        /\ imgResult # Raise
        /\ ImageDetectionFails(imgFile[1], imgMethod[1]) => imgResult = None
    /\ vPc = "done" =>
        /\ vResult # Raise
        /\ VideoDetectionFails => vResult = None

\* An audio extract whose buffer is too short to frame has returned.
C18_Witness ==
    /\ axPc = "done"
    /\ axCall[1].file.loadable /\ axCall[1].method = "dct"
    /\ axCall[1].file.audio.frames = <<>>
    /\ axResult = None

\* An audio extract has returned a string.
C18_WitnessFound ==
    /\ axPc = "done" /\ axResult # None /\ Len(axResult[1]) = 1

\* The 1-based positions of the coefficients that carry the payload bits:
\* bit i at index L/4 + i - 1.
SignCarrier(i) == Len(sfOrig) \div 4 + i
SignFits == Len(sfBits) <= (3 * Len(sfOrig)) \div 4 - Len(sfOrig) \div 4
Sign(x) == IF x > 0 THEN 1 ELSE IF x < 0 THEN -1 ELSE 0

\* C19: sign-force round trip - for every coefficient vector, zero
\* coefficients included, and every bit sequence that fits the band, each
\* carrying coefficient is +max(|original|, modification_strength) after
\* embedding bit 1 and the negative of it after bit 0, and sign detection
\* returns exactly the embedded bits.
C19_SignForceRoundTrip ==
    (sfPc # "idle" /\ SignFits) =>
        /\ Len(sfOnce) = Len(sfOrig)
        /\ \A i \in 1..Len(sfBits) :
            LET magnitude == Max(Abs(sfOrig[SignCarrier(i)]), modification_strength)
            IN  sfOnce[SignCarrier(i)] = IF sfBits[i] = 1 THEN magnitude ELSE -magnitude
        /\ sfPc = "detected" => sfDetected = sfBits

\* Detection has run on a vector in which a coefficient that was 0 carries
\* a 1 and a positive coefficient carries a 0.
C19_Witness ==
    /\ sfPc = "detected" /\ SignFits
    /\ \E i \in 1..Len(sfBits) : sfOrig[SignCarrier(i)] = 0 /\ sfBits[i] = 1
    /\ \E i \in 1..Len(sfBits) : sfOrig[SignCarrier(i)] > 0 /\ sfBits[i] = 0

\* C20: sign-force idempotence - embedding the same payload twice into the
\* same original buffer gives the same coefficient signs both times, and
\* embedding it again into the embedded coefficients leaves every carrying
\* coefficient unchanged.
C20_SignForceIdempotent ==
    sfPc \in {"reembedded", "detected"} =>
        /\ Len(sfSecond) = Len(sfOnce) /\ Len(sfAgain) = Len(sfOnce)
        /\ \A p \in 1..Len(sfOnce) : Sign(sfSecond[p]) = Sign(sfOnce[p])
        /\ \A i \in 1..Min(Len(sfBits), (3 * Len(sfOrig)) \div 4 - Len(sfOrig) \div 4) :
            sfAgain[SignCarrier(i)] = sfOnce[SignCarrier(i)]

\* The payload was embedded again into coefficients whose sign the first
\* embedding had flipped and whose magnitude it had raised.
C20_Witness ==
    /\ sfPc = "reembedded" /\ Len(sfBits) > 0
    /\ \E i \in 1..Len(sfBits) :
        /\ i <= (3 * Len(sfOrig)) \div 4 - Len(sfOrig) \div 4
        /\ Sign(sfOnce[SignCarrier(i)]) = -Sign(sfOrig[SignCarrier(i)])
        /\ Abs(sfOrig[SignCarrier(i)]) < modification_strength
        /\ sfOrig[SignCarrier(i)] # 0

-----------------------------------------------------------------------------
(* batch_embed of AudioWatermark, ImageWatermark and VideoWatermark: the    *)
(* three have the same body and differ in the embed they call.              *)

\* most entries of an input directory
MaxDirFiles == 2

\* How the suffix of a directory entry is written: a supported format in
\* lower case, in upper case or in mixed case, or no supported format.
SuffixCases == {"lower", "upper", "mixed", "other"}
Directories == SeqsOf(SuffixCases, 0, MaxDirFiles)
BatchClasses == {"audio", "image", "video"}

\* input_dir.glob(f"*{ext}") and input_dir.glob(f"*{ext.upper()}"): whether
\* an entry matches the pattern written in the given case.  pathlib matches
\* by the platform's rule, which ignores case on Windows.
GlobMatches(entry, pattern, ignoreCase) ==
    entry = pattern \/ (ignoreCase /\ entry # "other")

\* The entries of dir, in order, that the given pattern matches.
RECURSIVE Glob(_, _, _, _)
Glob(dir, pattern, ignoreCase, from) ==
    IF from > Len(dir) THEN <<>>
    ELSE (IF GlobMatches(dir[from], pattern, ignoreCase) THEN <<from>> ELSE <<>>)
         \o Glob(dir, pattern, ignoreCase, from + 1)

\* files.extend(glob(lower)); files.extend(glob(upper)), for the entries of
\* one supported format.
MatchedFiles(dir, ignoreCase) ==
    Glob(dir, "lower", ignoreCase, 1) \o Glob(dir, "upper", ignoreCase, 1)

BatchCalls ==
    [class : BatchClasses, dirExists : BOOLEAN, dir : Directories,
     ignoreCase : BOOLEAN, method : EmbedMethodArgs,
     frame_interval : 0..MaxInterval, outDirBefore : BOOLEAN]

\* self.embed(file, output_dir / file.name, watermark, method, ...) of the
\* class the batch belongs to.
BatchEmbed(class, c) ==
    IF class = "audio" THEN audio_embed(c)
    ELSE IF class = "image" THEN image_embed(c)
    ELSE video_embed(c)

\* The loop body's counter update: a count that grows with every file.
BatchCount_Always(count, ok) == count + 1

\* if self.embed(...): success_count += 1
BatchCount(count, ok) == IF ok THEN count + 1 ELSE count

\* batch_embed up to the loop: the directory test, the two globs, the test
\* for an empty list.
BatchEmbedCall ==
    /\ bPc = "idle"
    /\ \E b \in BatchCalls :
        /\ b.dirExists \/ b.dir = <<>>
        /\ b.class = "video" \/ b.frame_interval = 1
        /\ LET files == IF b.dirExists THEN MatchedFiles(b.dir, b.ignoreCase)
                        ELSE <<>>
           IN  /\ bCall' = Some(b)
               /\ bFiles' = files
               /\ bOutDir' = b.outDirBefore
               /\ IF ~b.dirExists \/ files = <<>>
                  THEN bPc' = "done" /\ bReturn' = Some(0)
                  ELSE bPc' = "loop" /\ bReturn' = None
    /\ bResults' = <<>>
    /\ bCount' = 0
    /\ UNCHANGED batchFrame

\* One iteration of the loop over the matched files: embed finds the file,
\* with the suffix it was matched by, and fails or not at one of its steps.
BatchEmbedFile ==
    /\ bPc = "loop"
    /\ Len(bResults) < Len(bFiles)
    /\ \E fail \in FailPoints :
        LET b == bCall[1]
            c == [exists |-> TRUE, suffixOk |-> TRUE, method |-> b.method,
                  blank |-> FALSE, frame_interval |-> b.frame_interval,
                  dirBefore |-> bOutDir, fail |-> fail]
            out == BatchEmbed(b.class, c)
        IN  /\ bResults' = Append(bResults, out.result)
            /\ bCount' = BatchCount(bCount, out.result)
            /\ bOutDir' = out.dir
    /\ UNCHANGED <<bPc, bCall, bFiles, bReturn, batchFrame>>

\* return success_count
BatchEmbedReturn ==
    /\ bPc = "loop"
    /\ Len(bResults) = Len(bFiles)
    /\ bPc' = "done"
    /\ bReturn' = Some(bCount)
    /\ UNCHANGED <<bCall, bFiles, bResults, bCount, bOutDir, batchFrame>>

BatchNext ==
    \/ BatchEmbedCall
    \/ BatchEmbedFile
    \/ BatchEmbedReturn

SpecBatch == InitQuiet /\ [][BatchNext]_vars

\* The number of files processed so far whose embed returned True.
BatchSucceeded == Cardinality({k \in 1..Len(bResults) : bResults[k]})

C22_EmbedRule ==
    ssPc # "idle" =>
        LET pn == generate_pseudorandom_sequence(0, Len(SSPayload), ssSeed).seq
        IN  \A k \in 1..Len(ssLog) :
                LET i == ssLog[k].frame
                    p == ssLog[k].j + 1
                    x == ssOrig[i][p]
                    delta == (ssAlpha * Abs(x) * pn[k]) \div 200
                IN  /\ ssLog[k].c = pn[k]
                    /\ ssCoeffs[i][p] = IF SSPayload[k] = 1 THEN x + delta
                                        ELSE x - delta

\* An embedding with alpha = 1.5 that moved a coefficient carrying a 1 and a
\* coefficient carrying a 0.
C22_Witness ==
    /\ ssPc = "embedded" /\ ssAlpha = 150
    /\ \E k, n \in 1..Len(ssLog) :
        /\ SSPayload[k] = 1 /\ SSPayload[n] = 0
        /\ ssCoeffs[ssLog[k].frame][ssLog[k].j + 1]
            # ssOrig[ssLog[k].frame][ssLog[k].j + 1]
        /\ ssCoeffs[ssLog[n].frame][ssLog[n].j + 1]
            # ssOrig[ssLog[n].frame][ssLog[n].j + 1]

\* C23: the spread-spectrum detect rule - bit i is read as 1 exactly when the
\* product of its coefficient and carrier element i is above 0 and as 0
\* otherwise, a product of 0 included; the bit sequence returned has exactly
\* the requested length, and every position without a coefficient slot is 0.
C23_DetectRule ==
    ssPc = "detected" =>
        LET requested == 8 * Len(ssText)
            pn == generate_pseudorandom_sequence(0, requested, ssSeed).seq
        IN  /\ Len(ssBits) = requested
            /\ Len(ssReadLog) <= requested
            /\ \A k \in 1..requested :
                IF k <= Len(ssReadLog)
                THEN LET x == ssCoeffs[ssReadLog[k].frame][ssReadLog[k].j + 1]
                     IN  /\ ssBits[k] \in {0, 1}
                         /\ ssBits[k] = 1 <=> x * pn[k] > 0
                ELSE ssBits[k] = 0

\* A detection that read a 1, read a 0 from a negative product, and was
\* asked for more bits than there were slots.
C23_Witness ==
    /\ ssPc = "detected"
    /\ Len(ssReadLog) < Len(ssBits)
    /\ \E k, n \in 1..Len(ssReadLog) :
        /\ ssBits[k] = 1 /\ ssBits[n] = 0
        /\ ssCoeffs[ssReadLog[n].frame][ssReadLog[n].j + 1] # 0

\* Bits placed in the frames before frame i: the bands of those frames, as
\* far as the payload reaches.
RECURSIVE BandsBefore(_)
BandsBefore(i) ==
    IF i <= 1 THEN 0
    ELSE BandsBefore(i - 1)
         + ((3 * Len(ssOrig[i - 1])) \div 4 - Len(ssOrig[i - 1]) \div 4)
BitsBefore(i) == Min(Len(SSPayload), BandsBefore(i))

\* C24: the frame effect of band selection - in a coefficient vector of
\* length L reached with K bits to place, only coefficients at indices in
\* [L/4, 3L/4) change; the bits go to the first K eligible indices in
\* ascending order, bit i on the i-th eligible index, by the embed rule;
\* every coefficient outside the band and every eligible coefficient after
\* the K-th keeps its value.
C24_BandFrameEffect ==
    (ssPc # "idle" /\ ssMethod = "dct") =>
        LET pn == generate_pseudorandom_sequence(0, Len(SSPayload), ssSeed).seq
        IN  /\ Len(ssCoeffs) = Len(ssOrig)
            /\ \A i \in 1..Len(ssOrig) :
                LET L == Len(ssOrig[i])
                    K == Len(SSPayload) - BitsBefore(i)
                IN  /\ Len(ssCoeffs[i]) = L
                    /\ \A j \in 0..(L - 1) :
                        LET n == j - L \div 4 + 1
                            x == ssOrig[i][j + 1]
                        IN  IF L \div 4 <= j /\ j < (3 * L) \div 4 /\ n <= K
                            THEN LET k == BitsBefore(i) + n
                                     delta == (ssAlpha * Abs(x) * pn[k]) \div 200
                                 IN  ssCoeffs[i][j + 1] =
                                        IF SSPayload[k] = 1 THEN x + delta
                                        ELSE x - delta
                            ELSE ssCoeffs[i][j + 1] = x

\* The second frame was reached with 2 bits to place: its first two eligible
\* coefficients moved and its third, not 0, kept its value.
C24_Witness ==
    /\ ssPc = "embedded" /\ ssMethod = "dct"
    /\ Len(ssOrig) = 2 /\ Len(SSPayload) - BitsBefore(2) = 2
    /\ LET s == Len(ssOrig[2]) \div 4
       IN  /\ ssCoeffs[2][s + 1] # ssOrig[2][s + 1]
           /\ ssCoeffs[2][s + 2] # ssOrig[2][s + 2]
           /\ ssOrig[2][s + 3] # 0
           /\ ssCoeffs[2][s + 3] = ssOrig[2][s + 3]

\* C25 as stated: in the wavelet path the watermark is carried by the
\* approximation vector alone - embed leaves every detail vector as it was
\* and extraction reads the bits from the approximation vector.
C25_ApproximationCarries ==
    (ssPc # "idle" /\ ssMethod = "dwt") =>
        /\ \A i \in 2..Len(ssOrig) : ssCoeffs[i] = ssOrig[i]
        /\ \A k \in 1..Len(ssLog) : ssLog[k].frame = 1
        /\ ssPc = "detected" => \A k \in 1..Len(ssReadLog) : ssReadLog[k].frame = 1

\* C25, amended: in the wavelet path the watermark is carried by coeffs[1],
\* the coarsest detail vector, alone - embed leaves the approximation vector
\* and every other detail vector as they were and hands them unchanged to
\* the inverse transform, and extraction reads bit i from coefficient i of
\* coeffs[1].
C25_DetailCarries ==
    (ssPc # "idle" /\ ssMethod = "dwt") =>
        /\ Len(ssCoeffs) = Len(ssOrig)
        /\ \A i \in 1..Len(ssOrig) : i # 2 => ssCoeffs[i] = ssOrig[i]
        /\ \A k \in 1..Len(ssLog) : ssLog[k].frame = 2 /\ ssLog[k].j = k - 1
        /\ ssPc = "detected" =>
            LET pn == generate_pseudorandom_sequence(0, 8 * Len(ssText), ssSeed).seq
            IN  /\ \A k \in 1..Len(ssReadLog) :
                    ssReadLog[k].frame = 2 /\ ssReadLog[k].j = k - 1
                /\ \A k \in 1..Len(ssBits) :
                    ssBits[k] = IF k <= Len(ssCoeffs[2]) /\ ssCoeffs[2][k] * pn[k] > 0
                                THEN 1 ELSE 0

\* A wavelet embedding moved coefficients of coeffs[1] and the bits were
\* read back from it, a 1 among them.
C25_Witness ==
    /\ ssPc = "detected" /\ ssMethod = "dwt"
    /\ ssCoeffs[2] # ssOrig[2]
    /\ \E k \in 1..Len(ssBits) : ssBits[k] = 1

\* C26: carrier generation has no side effects - after a call of
\* _generate_pseudorandom_sequence the state of the process-wide generator
\* is the state it had before the call.
C26_GeneratorUntouched ==
    carrierCalls > 0 => rng = carrierBefore

-----------------------------------------------------------------------------
(* VideoWatermark.embed in detail: the reader, the writer and the frame     *)
(* loop of _process_video_frames, and the sampling extract then does on the *)
(* video that was written.                                                  *)

\* most frames the input video of an embed has
MaxEmbedFrames == 3

\* max_frames: None, or an int
MaxFramesArgs == {None} \cup {Some(n) : n \in 0..MaxEmbedFrames}

\* What _initialize_video_reader meets: imageio.get_reader raises; the
\* reader opens and get_meta_data or get_data(0) raises; all of it works.
ReaderInits == {"getReaderRaises", "raisesAfterOpen", "ok"}

\* if max_frames: total_frames = min(total_frames, max_frames)
ClampFrames(total_frames, max_frames) ==
    IF max_frames # None /\ max_frames[1] # 0
    THEN Min(total_frames, max_frames[1])
    ELSE total_frames

\* A frame loop that sends every frame to the image embedder.
Selected_All(frame_idx, frame_interval) == TRUE

\* if frame_idx % frame_interval == 0
Selected(frame_idx, frame_interval) == frame_idx % frame_interval = 0

\* The frame one iteration appends: the watermarked frame when the index is
\* selected, image_watermark.embed returned True and cv2.imread read its
\* output; the frame as read otherwise.
AppendedFrame(frame_idx, frame_interval, embedOk, imreadOk) ==
    [idx |-> frame_idx,
     watermarked |-> Selected(frame_idx, frame_interval) /\ embedOk /\ imreadOk]

\* embed up to the frame loop: validation, mkdir, _initialize_video_reader,
\* the max_frames cut, _create_video_writer.
VEmbedCall ==
    /\ NoCallYet
    /\ \E pathOk \in BOOLEAN, method \in {"dwtDct", "lsb"},
          frame_interval \in 0..MaxInterval, max_frames \in MaxFramesArgs,
          mkdirOk \in BOOLEAN, init \in ReaderInits,
          total_frames \in 0..MaxEmbedFrames, writerOk \in BOOLEAN :
        LET c == [exists |-> pathOk, suffixOk |-> TRUE, method |-> method,
                  blank |-> FALSE, frame_interval |-> frame_interval,
                  dirBefore |-> FALSE, fail |-> "none"]
        IN  /\ veArgs' = Some([frame_interval |-> frame_interval,
                               max_frames |-> max_frames])
            /\ IF ~validate_embed_params(c) \/ ~mkdirOk
                  \/ init = "getReaderRaises"
               THEN /\ veReader' = "none" /\ veWriter' = "none"
                    /\ veTotal' = 0
                    /\ vePc' = "done" /\ veResult' = Some(FALSE)
               ELSE IF init = "raisesAfterOpen"
               \* except Exception: return None, None, None, None, None
               THEN /\ veReader' = "open" /\ veWriter' = "none"
                    /\ veTotal' = 0
                    /\ vePc' = "done" /\ veResult' = Some(FALSE)
               ELSE IF ~writerOk
               \* if writer is None: reader.close(); return False
               THEN /\ veReader' = "closed" /\ veWriter' = "none"
                    /\ veTotal' = ClampFrames(total_frames, max_frames)
                    /\ vePc' = "done" /\ veResult' = Some(FALSE)
               ELSE /\ veReader' = "open" /\ veWriter' = "open"
                    /\ veTotal' = ClampFrames(total_frames, max_frames)
                    /\ vePc' = "loop" /\ veResult' = None
    /\ UNCHANGED <<veWritten, veFrameCount, veWatermarkedCount, veRaised,
                   veSampled, vembedFrame>>

\* One iteration of the loop of _process_video_frames that does not raise:
\* the frame cannot be read and the loop breaks, or the frame is appended
\* and counted.
VEmbedFrame ==
    /\ vePc = "loop"
    /\ veFrameCount < veTotal
    /\ \E readOk, embedOk, imreadOk \in BOOLEAN :
        IF ~readOk
        THEN /\ embedOk /\ imreadOk
             /\ vePc' = "afterloop"
             /\ UNCHANGED <<veWritten, veFrameCount, veWatermarkedCount>>
        ELSE LET frame == AppendedFrame(veFrameCount, veArgs[1].frame_interval,
                                        embedOk, imreadOk)
             IN  /\ veWritten' = Append(veWritten, frame)
                 /\ veWatermarkedCount' =
                        IF frame.watermarked THEN veWatermarkedCount + 1
                        ELSE veWatermarkedCount
                 /\ veFrameCount' = veFrameCount + 1
                 /\ UNCHANGED vePc
    /\ UNCHANGED <<veArgs, veTotal, veReader, veWriter, veRaised, veResult,
                   veSampled, vembedFrame>>

\* An iteration raises outside the try around the read - cv2.imwrite,
\* cv2.cvtColor or writer.append_data before the frame is appended, unlink
\* after it - and the exception leaves through the finally clause of
\* _embed_watermark, which closes the reader and the writer, to embed's
\* handler, which returns False.
VEmbedFrameRaises ==
    /\ vePc = "loop"
    /\ veFrameCount < veTotal
    /\ \E appended, embedOk \in BOOLEAN :
        /\ appended => Selected(veFrameCount, veArgs[1].frame_interval)
        /\ appended \/ embedOk
        /\ veWritten' =
            IF appended
            THEN Append(veWritten, AppendedFrame(veFrameCount,
                            veArgs[1].frame_interval, embedOk, TRUE))
            ELSE veWritten
    /\ veRaised' = TRUE
    /\ veReader' = "closed" /\ veWriter' = "closed"
    /\ veResult' = Some(FALSE)
    /\ vePc' = "done"
    /\ UNCHANGED <<veArgs, veTotal, veFrameCount, veWatermarkedCount, veSampled,
                   vembedFrame>>

\* The loop is over: the finally clause closes the reader and the writer,
\* and the temporary video, when it exists, is merged into the output.
VEmbedFinish ==
    /\ vePc = "afterloop" \/ (vePc = "loop" /\ veFrameCount = veTotal)
    /\ \E tempExists, mergeOk \in BOOLEAN :
        /\ tempExists \/ mergeOk
        /\ veResult' = Some(tempExists /\ mergeOk)
    /\ veReader' = "closed" /\ veWriter' = "closed"
    /\ vePc' = "done"
    /\ UNCHANGED <<veArgs, veTotal, veWritten, veFrameCount, veWatermarkedCount,
                   veRaised, veSampled, vembedFrame>>

\* extract on the video embed wrote, with embed's frame_interval: the
\* capture reports at most the frames written (ffmpeg's -shortest may cut
\* the video to the audio) and lines 437-445 choose the frames.
VEmbedSample ==
    /\ vePc = "done"
    /\ veResult = Some(TRUE)
    /\ \E total_frames \in 0..Len(veWritten), sample_frames \in 1..MaxSample :
        veSampled' = Some(FrameIndices(total_frames, sample_frames,
                                       veArgs[1].frame_interval))
    /\ vePc' = "sampled"
    /\ UNCHANGED <<veArgs, veTotal, veWritten, veFrameCount, veWatermarkedCount,
                   veReader, veWriter, veRaised, veResult, vembedFrame>>

VideoNext ==
    \/ ExtractCall
    \/ OpenCapture
    \/ ExtractFrame
    \/ ExtractFrameRaises
    \/ AggregateStep
    \/ VEmbedCall
    \/ VEmbedFrame
    \/ VEmbedFrameRaises
    \/ VEmbedFinish
    \/ VEmbedSample

SpecVideo == InitQuiet /\ [][VideoNext]_vars

\* The indices below n that are multiples of frame_interval.
MultiplesBelow(n, frame_interval) ==
    {i \in 0..(n - 1) : i % frame_interval = 0}

C28_ResourcesReleased ==
    /\ vePc \in {"done", "sampled"} => (veReader # "open" /\ veWriter # "open")
    /\ vPc = "done" => ~vCapOpen

\* The frame indices extract samples.
SampledIndices == {veSampled[1][k] : k \in 1..Len(veSampled[1])}

\* C29 as stated: for one frame_interval, every index extract samples is a
\* multiple of frame_interval, so one that embed selected for watermarking
\* when it is below the number of frames embed processed, and extract never
\* samples a frame that embed passed through unmodified.
C29_NeverSamplesUnmodified ==
    vePc = "sampled" =>
        \A i \in SampledIndices :
            /\ i % veArgs[1].frame_interval = 0
            /\ i < veFrameCount => veWritten[i + 1].watermarked

\* C29, amended: for one frame_interval, every index extract samples is a
\* multiple of frame_interval and below the number of frames embed processed,
\* so an index embed selected for watermarking; extract never samples a frame
\* that embed passed through because its index was not selected.  A selected
\* frame whose image embedding failed was written as read, and extract
\* samples it like any other selected frame.
C29_SamplingAgreement ==
    vePc = "sampled" =>
        /\ \A i \in SampledIndices :
            /\ i % veArgs[1].frame_interval = 0
            /\ i < veFrameCount
            /\ veWritten[i + 1].idx = i
        /\ \A k \in 1..Len(veWritten) :
            (k - 1) % veArgs[1].frame_interval # 0 => (k - 1) \notin SampledIndices
        /\ Cardinality(SampledIndices) = Len(veSampled[1])

\* With frame_interval 2, embed wrote three frames and extract sampled
\* frames 0 and 2, of which frame 2 had been written as read.
C29_Witness ==
    /\ vePc = "sampled" /\ veArgs[1].frame_interval = 2
    /\ Len(veWritten) = 3
    /\ veSampled = Some(<<0, 2>>)
    /\ veWritten[1].watermarked /\ ~veWritten[3].watermarked

-----------------------------------------------------------------------------
(* The commands `video embed` and `video extract`: main.py                  *)

\* The argument None.
NoneArg == [isStr |-> TRUE, s |-> "None", n |-> 0]

\* The positional parameters after self, and their defaults, of
\* VideoWatermark.embed (video_watermark.py:177-185) ...
EmbedParams ==
    <<"input_path", "output_path", "watermark", "method", "frame_interval",
      "max_frames">>
EmbedDefaults ==
    <<NoneArg, NoneArg, NoneArg, StrArg("dwtDct"), IntArg(1), NoneArg>>
\* ... and of VideoWatermark.extract (382-389).
ExtractParams ==
    <<"input_path", "extract_length", "method", "frame_interval", "sample_frames">>
ExtractDefaults ==
    <<NoneArg, NoneArg, StrArg("dwtDct"), IntArg(1), IntArg(10)>>

\* Python's binding of positional arguments to a function's parameters:
\* more arguments than parameters raise TypeError before the body runs;
\* otherwise argument k goes to parameter k and the rest take their defaults.
BindPositional(params, defaults, args) ==
    IF Len(args) > Len(params)
    THEN [made |-> TRUE, raised |-> TRUE, bound |-> <<>>]
    ELSE [made |-> TRUE, raised |-> FALSE,
          bound |-> [k \in 1..Len(params) |->
                        IF k <= Len(args) THEN args[k] ELSE defaults[k]]]

\* The options of a command line.
CliPasswords == {1, 7}
CliCommands ==
    [command : {"embed", "extract"}, available : BOOLEAN,
     method : {"dwtDct", "dwtDctSvd"},
     password_img : CliPasswords, password_wm : CliPasswords,
     frame_interval : 1..MaxInterval, max_frames : MaxFramesArgs,
     sample_frames : 1..MaxSample, wm_shape : {"None", "128,128", "128x128"}]

MaxFramesArg(max_frames) ==
    IF max_frames = None THEN NoneArg ELSE IntArg(max_frames[1])

\* watermarker.embed(input_path, output_path, watermark, method, password_img,
\*                   password_wm, frame_interval, max_frames)
video_embed_args(o) ==
    <<StrArg("input_path"), StrArg("output_path"), StrArg("watermark"),
      StrArg(o.method), IntArg(o.password_img), IntArg(o.password_wm),
      IntArg(o.frame_interval), MaxFramesArg(o.max_frames)>>

\* watermarker.extract(input_path, method, password_img, password_wm,
\*                     frame_interval, sample_frames, wm_shape_tuple,
\*                     output_wm_dir)
video_extract_args(o) ==
    <<StrArg("input_path"), StrArg(o.method), IntArg(o.password_img),
      IntArg(o.password_wm), IntArg(o.frame_interval), IntArg(o.sample_frames),
      StrArg(o.wm_shape), NoneArg>>

\* What the command ends with once the call is bound: a TypeError leaves the
\* command as it is raised at the call; a call that ran returns a bool (a
\* str or None) and the command exits with 1 on False (None).
CliEnds(call, ok) ==
    IF call.raised THEN "TypeError"
    ELSE IF ok THEN "returned" ELSE "Exit(1)"

\* The command `video embed`: main.py, lines 213-246.
CliVideoEmbed ==
    /\ cliPc = "idle"
    /\ \E o \in CliCommands, ok \in BOOLEAN :
        /\ o.command = "embed" /\ o.sample_frames = 1 /\ o.wm_shape = "None"
        /\ cliCmd' = Some(o)
        /\ IF ~o.available
           THEN /\ ok
                /\ cliCall' = cliCall
                /\ cliExit' = "Exit(1)"
           ELSE LET call == BindPositional(EmbedParams, EmbedDefaults,
                                           video_embed_args(o))
                IN  /\ call.raised => ok
                    /\ cliCall' = call
                    /\ cliExit' = CliEnds(call, ok)
    /\ cliPc' = "done"
    /\ UNCHANGED cliFrame

\* The command `video extract`: main.py, lines 249-293.
CliVideoExtract ==
    /\ cliPc = "idle"
    /\ \E o \in CliCommands, ok \in BOOLEAN :
        /\ o.command = "extract" /\ o.max_frames = None
        /\ cliCmd' = Some(o)
        /\ IF ~o.available \/ o.wm_shape = "128x128"
           \* tuple(map(int, wm_shape.split(","))) raises ValueError
           THEN /\ ok
                /\ cliCall' = cliCall
                /\ cliExit' = "Exit(1)"
           ELSE LET call == BindPositional(ExtractParams, ExtractDefaults,
                                           video_extract_args(o))
                IN  /\ call.raised => ok
                    /\ cliCall' = call
                    /\ cliExit' = CliEnds(call, ok)
    /\ cliPc' = "done"
    /\ UNCHANGED cliFrame

CliNext ==
    \/ CliVideoEmbed
    \/ CliVideoExtract

SpecCli == InitQuiet /\ [][CliNext]_vars

\* The argument the call bound to the named parameter.
CliBound(params, name) ==
    cliCall.bound[CHOOSE k \in 1..Len(params) : params[k] = name]

\* C30: the command `video embed` calls VideoWatermark.embed so that the
\* user's --frame-interval and --max-frames are the frame_interval and
\* max_frames embed uses, and `video extract` calls VideoWatermark.extract so
\* that --frame-interval and --sample-frames are the frame_interval and
\* sample_frames extract uses; a call with valid arguments reaches the
\* embedding or extraction logic and does not end in an argument error.
C30_CliPassThrough ==
    (/\ cliPc = "done" /\ cliCmd[1].available
     /\ cliCmd[1].wm_shape # "128x128") =>
        /\ cliCall.made /\ ~cliCall.raised
        /\ cliExit # "TypeError"
        /\ cliCmd[1].command = "embed" =>
            /\ CliBound(EmbedParams, "frame_interval")
                = IntArg(cliCmd[1].frame_interval)
            /\ CliBound(EmbedParams, "max_frames")
                = MaxFramesArg(cliCmd[1].max_frames)
        /\ cliCmd[1].command = "extract" =>
            /\ CliBound(ExtractParams, "frame_interval")
                = IntArg(cliCmd[1].frame_interval)
            /\ CliBound(ExtractParams, "sample_frames")
                = IntArg(cliCmd[1].sample_frames)

=============================================================================
